---- MODULE Spec2Model ----
(***************************************************************************)
(* A model of parts of VROOM:                                              *)
(*   - the or_opt local search operator (compute_gain, is_valid, apply)    *)
(*     of src/src/problems/cvrp/local_search/or_opt.cpp,                   *)
(*   - the route validator choose_invalid_route of src/unnamed/part_002.   *)
(*   - the input parser parse of src/unnamed/part_003,                     *)
(*   - osrm_wrapper::get_matrix (or_opt.cpp, lines 303-387),               *)
(*   - the GLPK calls of choose_invalid_route made by parallel workers,    *)
(*   - cvrp::empty_cluster and cvrp::solve of src/unnamed/part_001.        *)
(* Ranks are 0-based as in the source; TLA+ sequences are 1-based, so the  *)
(* job at rank r of a route is route[r + 1] (operator At).                 *)
(***************************************************************************)
EXTENDS Integers, Sequences, FiniteSets, TLC

\* ------------------------------------------------------------------------
\* Bounds of the model.
\* ------------------------------------------------------------------------
NumVehicles == 3
NumJobs == 4
\* Most tasks (jobs and breaks) in the steps handed to choose_invalid_route.
MaxTasks == 2
\* Most jobs and vehicles in a document handed to parse, and the largest
\* custom matrix.
MaxDocJobs == 2
MaxDocVehicles == 2
MaxMatrixSize == 3
\* Most locations in the table asked to the server, and most entries of
\* the table without a route.
MaxLocations == 3
MaxUnfound == 3
\* The workers that call choose_invalid_route in parallel.
NumWorkers == 3
\* The vehicles and the jobs of the problem handed to cvrp::solve.
NumClusters == 2
NumClusterJobs == 2

Vehicles == 0 .. (NumVehicles - 1)
Jobs == 0 .. (NumJobs - 1)

NoOp == [source_vehicle |-> -1, source_rank |-> -1,
         target_vehicle |-> -1, target_rank |-> -1]

VARIABLES
  input,          \* the immutable problem (const input& _input)
  sol,            \* raw_solution& _sol: vehicle -> sequence of job ranks
  amounts,        \* std::vector<amount_t>& _amounts: vehicle -> amount
  op,             \* the or_opt object: source/target vehicle and rank
  stored_gain,    \* ls_operator::stored_gain
  gain_computed,  \* ls_operator::gain_computed
  valid,          \* what is_valid() returned for op
  lspc,           \* position of the local search driver
  base,           \* history: solution and amounts before the last apply,
                  \* kept until the driver builds the next operator
  undone,         \* history: the last apply was the inverse of the previous one
  vin,            \* choose_invalid_route: the vehicle and its steps
  vpc,            \* choose_invalid_route: position in the function
  lp,             \* the GLPK problem object and the GLPK environment
  status,         \* what glp_mip_status returned last
  mip,            \* the column values glp_intopt left in the problem
  result,         \* the Route returned
  err,            \* the Exception thrown
  unassigned_ranks, \* std::unordered_set<Index>& unassigned_ranks
  json_input,     \* parse: the document (rapidjson::Document json_input)
  ppc,            \* parse: position in the function
  pl,             \* parse: matrix_input, necessary_indices, index_counter
  input_data,     \* parse: the input being built, returned at the end
  thrown,         \* parse: the text of the custom_exception thrown
  infos,          \* get_matrix: the response of the server (json_content)
                  \* and the document infos parsed from it
  gpc,            \* get_matrix: position in the function
  gl,             \* get_matrix: m, nb_unfound_from_loc, nb_unfound_to_loc
  gret,           \* get_matrix: the matrix returned or the exception thrown
  wk,             \* parallel workers: position of each in choose_invalid_route
                  \* and the state of its glp_prob
  glp_env,        \* the GLPK environment of the process is allocated
  cv              \* cvrp::solve: the problem, the clusters, the loop, the
                  \* solution returned

lsvars == <<input, sol, amounts, op, stored_gain, gain_computed, valid, lspc,
            base, undone>>
vvars == <<vin, vpc, lp, status, mip, result, err, unassigned_ranks>>
pvars == <<json_input, ppc, pl, input_data, thrown>>
gvars == <<infos, gpc, gl, gret>>
wvars == <<wk, glp_env>>
cvars == <<cv>>

\* ------------------------------------------------------------------------
\* Generic helpers.
\* ------------------------------------------------------------------------
At(route, r) == route[r + 1]

RECURSIVE Perms(_)
Perms(S) ==
  IF S = {} THEN {<<>>}
  ELSE UNION {{<<x>> \o p : p \in Perms(S \ {x})} : x \in S}

\* All the ways to cut seq into k consecutive (possibly empty) routes.
RECURSIVE Splits(_, _)
Splits(seq, k) ==
  IF k = 1 THEN {<<seq>>}
  ELSE UNION {{<<SubSeq(seq, 1, i)>> \o rest :
                 rest \in Splits(SubSeq(seq, i + 1, Len(seq)), k - 1)} :
              i \in 0 .. Len(seq)}

RECURSIVE SumSeq(_)
SumSeq(s) == IF s = <<>> THEN 0 ELSE Head(s) + SumSeq(Tail(s))

\* ------------------------------------------------------------------------
\* The problem: amount_t, jobs, vehicles, matrix.
\* ------------------------------------------------------------------------
\* amount_t: a vector of two components.
AmountAdd(a, b) == <<a[1] + b[1], a[2] + b[2]>>
AmountSub(a, b) == <<a[1] - b[1], a[2] - b[2]>>
\* operator<= on amount_t: every component.
AmountLeq(a, b) == a[1] <= b[1] /\ a[2] <= b[2]
zero_amount == <<0, 0>>

\* _input._jobs[j].amount
JobAmount(j) == <<1 + (j % 2), j % 3>>
\* _input._jobs[j].index(): the job's row/column in the matrix.
JobIndex(j) == j
\* Job type: the delivery of a pair has the rank of its pickup plus one.
JobType(j) == IF j = 1 THEN "pickup" ELSE IF j = 2 THEN "delivery" ELSE "single"
JobSkills(in, j) ==
  IF ~in.skilled THEN {} ELSE IF j = 0 THEN {1} ELSE IF j = 3 THEN {2} ELSE {}

\* _input._vehicles[v]
has_start(in, v) == ((in.profile + v) % 4) \in {0, 1}
has_end(in, v) == ((in.profile + v) % 4) \in {0, 2}
StartIndex(v) == NumJobs + 2 * v
EndIndex(v) == NumJobs + 2 * v + 1
Capacity(in, v) == in.capacity
VehicleSkills(in, v) == IF v = 1 THEN {1} ELSE {1, 2}

\* _input.get_matrix(): travel costs, asymmetric, 0 on the diagonal.
Matrix(in, i, j) ==
  IF i = j THEN 0
  ELSE 1 + ((3 * i + 5 * j + in.seed * (i + 2 * j + 1)) % 7)

\* input::vehicle_ok_with_job: the vehicle has every skill the job needs.
vehicle_ok_with_job(in, v, j) == JobSkills(in, j) \subseteq VehicleSkills(in, v)

\* ------------------------------------------------------------------------
\* std::vector operations used by apply.
\* ------------------------------------------------------------------------
\* v.insert(v.begin() + pos, first, last): items go before rank pos.
VecInsert(v, pos, items) ==
  SubSeq(v, 1, pos) \o items \o SubSeq(v, pos + 1, Len(v))
\* v.erase(v.begin() + pos, v.begin() + pos + count)
VecErase(v, pos, count) ==
  SubSeq(v, 1, pos) \o SubSeq(v, pos + count + 1, Len(v))

\* ------------------------------------------------------------------------
\* Derived solution state and the or_opt operator.
\* ------------------------------------------------------------------------
\* edge_gains[v][r] as the whole cost saved in route v by removing the jobs
\* at ranks r and r + 1, the edge between them included.
edge_gains_WholeSaving(in, s, v, r) ==
  LET route == s[v]
      c_index == JobIndex(At(route, r))
      after_c_index == JobIndex(At(route, r + 1))
      first == (r = 0)
      last == (r + 2 = Len(route))
      has_p == ~first \/ has_start(in, v)
      has_n == ~last \/ has_end(in, v)
      p_index == IF first THEN StartIndex(v) ELSE JobIndex(At(route, r - 1))
      n_index == IF last THEN EndIndex(v) ELSE JobIndex(At(route, r + 2))
      previous_cost == IF has_p THEN Matrix(in, p_index, c_index) ELSE 0
      next_cost == IF has_n THEN Matrix(in, after_c_index, n_index) ELSE 0
      new_edge_cost == IF has_p /\ has_n /\ ~(first /\ last)
                       THEN Matrix(in, p_index, n_index) ELSE 0
  IN previous_cost + Matrix(in, c_index, after_c_index) + next_cost
     - new_edge_cost

\* edge_gains[v][r]: the cost of the two edges around the edge (r, r + 1) of
\* route v minus the cost of the edge that replaces them; the cost of the
\* edge (r, r + 1) itself is not part of it, as the edge moves as a whole.
edge_gains(in, s, v, r) ==
  LET route == s[v]
      c_index == JobIndex(At(route, r))
      after_c_index == JobIndex(At(route, r + 1))
      first == (r = 0)
      last == (r + 2 = Len(route))
      has_p == ~first \/ has_start(in, v)
      has_n == ~last \/ has_end(in, v)
      p_index == IF first THEN StartIndex(v) ELSE JobIndex(At(route, r - 1))
      n_index == IF last THEN EndIndex(v) ELSE JobIndex(At(route, r + 2))
      previous_cost == IF has_p THEN Matrix(in, p_index, c_index) ELSE 0
      next_cost == IF has_n THEN Matrix(in, after_c_index, n_index) ELSE 0
      new_edge_cost == IF has_p /\ has_n /\ ~(first /\ last)
                       THEN Matrix(in, p_index, n_index) ELSE 0
  IN previous_cost + next_cost - new_edge_cost

\* The asserts opening or_opt::compute_gain.
OpOk(s, o) ==
  /\ o.source_vehicle \in Vehicles
  /\ o.target_vehicle \in Vehicles
  /\ o.source_vehicle # o.target_vehicle
  /\ Len(s[o.source_vehicle]) >= 2
  /\ o.source_rank \in 0 .. (Len(s[o.source_vehicle]) - 2)
  /\ o.target_rank \in 0 .. Len(s[o.target_vehicle])

AllOps ==
  [source_vehicle : Vehicles, source_rank : 0 .. (NumJobs - 2),
   target_vehicle : Vehicles, target_rank : 0 .. NumJobs]

\* A plausible slip: the edge replaced in the target route is forgotten
\* when the pair is appended after a real job.
target_gain_NoOldEdge(in, s, o) ==
  LET tv == o.target_vehicle
      src == s[o.source_vehicle]
      tgt == s[tv]
      c_index == JobIndex(At(src, o.source_rank))
      after_c_index == JobIndex(At(src, o.source_rank + 1))
      costs ==
        IF o.target_rank = Len(tgt) THEN
          IF Len(tgt) = 0 THEN
            [previous_cost |-> IF has_start(in, tv)
                               THEN Matrix(in, StartIndex(tv), c_index) ELSE 0,
             next_cost |-> IF has_end(in, tv)
                           THEN Matrix(in, after_c_index, EndIndex(tv)) ELSE 0,
             old_edge_cost |-> 0]
          ELSE
            LET p_index == JobIndex(At(tgt, o.target_rank - 1))
            IN [previous_cost |-> Matrix(in, p_index, c_index),
                next_cost |-> IF has_end(in, tv)
                              THEN Matrix(in, after_c_index, EndIndex(tv))
                              ELSE 0,
                old_edge_cost |-> 0]
        ELSE
          LET n_index == JobIndex(At(tgt, o.target_rank))
          IN IF o.target_rank = 0 THEN
               IF has_start(in, tv) THEN
                 [previous_cost |-> Matrix(in, StartIndex(tv), c_index),
                  next_cost |-> Matrix(in, after_c_index, n_index),
                  old_edge_cost |-> Matrix(in, StartIndex(tv), n_index)]
               ELSE
                 [previous_cost |-> 0,
                  next_cost |-> Matrix(in, after_c_index, n_index),
                  old_edge_cost |-> 0]
             ELSE
               LET p_index == JobIndex(At(tgt, o.target_rank - 1))
               IN [previous_cost |-> Matrix(in, p_index, c_index),
                   next_cost |-> Matrix(in, after_c_index, n_index),
                   old_edge_cost |-> Matrix(in, p_index, n_index)]
  IN costs.old_edge_cost - costs.previous_cost - costs.next_cost

\* or_opt::compute_gain, the gain for the target vehicle (target_gain).
target_gain(in, s, o) ==
  LET tv == o.target_vehicle
      src == s[o.source_vehicle]
      tgt == s[tv]
      c_index == JobIndex(At(src, o.source_rank))
      after_c_index == JobIndex(At(src, o.source_rank + 1))
      costs ==
        IF o.target_rank = Len(tgt) THEN
          IF Len(tgt) = 0 THEN
            \* Adding edge to an empty route.
            [previous_cost |-> IF has_start(in, tv)
                               THEN Matrix(in, StartIndex(tv), c_index) ELSE 0,
             next_cost |-> IF has_end(in, tv)
                           THEN Matrix(in, after_c_index, EndIndex(tv)) ELSE 0,
             old_edge_cost |-> 0]
          ELSE
            \* Adding edge past the end after a real job.
            LET p_index == JobIndex(At(tgt, o.target_rank - 1))
            IN [previous_cost |-> Matrix(in, p_index, c_index),
                next_cost |-> IF has_end(in, tv)
                              THEN Matrix(in, after_c_index, EndIndex(tv))
                              ELSE 0,
                old_edge_cost |-> IF has_end(in, tv)
                                  THEN Matrix(in, p_index, EndIndex(tv))
                                  ELSE 0]
        ELSE
          \* Adding before one of the jobs.
          LET n_index == JobIndex(At(tgt, o.target_rank))
          IN IF o.target_rank = 0 THEN
               IF has_start(in, tv) THEN
                 [previous_cost |-> Matrix(in, StartIndex(tv), c_index),
                  next_cost |-> Matrix(in, after_c_index, n_index),
                  old_edge_cost |-> Matrix(in, StartIndex(tv), n_index)]
               ELSE
                 [previous_cost |-> 0,
                  next_cost |-> Matrix(in, after_c_index, n_index),
                  old_edge_cost |-> 0]
             ELSE
               LET p_index == JobIndex(At(tgt, o.target_rank - 1))
               IN [previous_cost |-> Matrix(in, p_index, c_index),
                   next_cost |-> Matrix(in, after_c_index, n_index),
                   old_edge_cost |-> Matrix(in, p_index, n_index)]
  IN costs.old_edge_cost - costs.previous_cost - costs.next_cost

\* or_opt::compute_gain: the value given to stored_gain, for a value eg of
\* edge_gains[source_vehicle][source_rank].
compute_gain(in, s, o, eg) == eg + target_gain(in, s, o)

\* A plausible slip: the amount of the second job is not counted.
is_valid_OneJob(in, s, am, o) ==
  LET current_job_rank == At(s[o.source_vehicle], o.source_rank)
      after_job_rank == At(s[o.source_vehicle], o.source_rank + 1)
  IN /\ vehicle_ok_with_job(in, o.target_vehicle, current_job_rank)
     /\ vehicle_ok_with_job(in, o.target_vehicle, after_job_rank)
     /\ AmountLeq(AmountAdd(am[o.target_vehicle], JobAmount(current_job_rank)),
                  Capacity(in, o.target_vehicle))

\* A plausible slip: the skills of the second job are not checked.
is_valid_OneSkill(in, s, am, o) ==
  LET current_job_rank == At(s[o.source_vehicle], o.source_rank)
      after_job_rank == At(s[o.source_vehicle], o.source_rank + 1)
  IN /\ vehicle_ok_with_job(in, o.target_vehicle, current_job_rank)
     /\ AmountLeq(AmountAdd(AmountAdd(am[o.target_vehicle],
                                      JobAmount(current_job_rank)),
                            JobAmount(after_job_rank)),
                  Capacity(in, o.target_vehicle))

\* or_opt::is_valid
is_valid(in, s, am, o) ==
  LET current_job_rank == At(s[o.source_vehicle], o.source_rank)
      after_job_rank == At(s[o.source_vehicle], o.source_rank + 1)
  IN /\ vehicle_ok_with_job(in, o.target_vehicle, current_job_rank)
     /\ vehicle_ok_with_job(in, o.target_vehicle, after_job_rank)
     /\ AmountLeq(AmountAdd(AmountAdd(am[o.target_vehicle],
                                      JobAmount(current_job_rank)),
                            JobAmount(after_job_rank)),
                  Capacity(in, o.target_vehicle))

\* A plausible slip: the erase starts one rank too far.
apply_sol_BadErase(s, o) ==
  LET sv == o.source_vehicle
      tv == o.target_vehicle
      moved == SubSeq(s[sv], o.source_rank + 1, o.source_rank + 2)
  IN [s EXCEPT ![tv] = VecInsert(s[tv], o.target_rank, moved),
               ![sv] = IF o.source_rank + 2 < Len(s[sv])
                       THEN VecErase(s[sv], o.source_rank + 1, 2)
                       ELSE VecErase(s[sv], o.source_rank, 2)]

\* A plausible slip: the pair is inserted one rank too far.
apply_sol_InsertAfter(s, o) ==
  LET sv == o.source_vehicle
      tv == o.target_vehicle
      moved == SubSeq(s[sv], o.source_rank + 1, o.source_rank + 2)
  IN [s EXCEPT ![tv] = VecInsert(s[tv],
                                 IF o.target_rank < Len(s[tv])
                                 THEN o.target_rank + 1 ELSE o.target_rank,
                                 moved),
               ![sv] = VecErase(s[sv], o.source_rank, 2)]

\* or_opt::apply, the routes: the pair is inserted in the target route, then
\* erased from the source route.
apply_sol(s, o) ==
  LET sv == o.source_vehicle
      tv == o.target_vehicle
      moved == SubSeq(s[sv], o.source_rank + 1, o.source_rank + 2)
  IN [s EXCEPT ![tv] = VecInsert(s[tv], o.target_rank, moved),
               ![sv] = VecErase(s[sv], o.source_rank, 2)]

\* A plausible slip: the source vehicle's amount is left as it was.
apply_amounts_NoSub(s, am, o) ==
  LET mv_amount == AmountAdd(JobAmount(At(s[o.source_vehicle], o.source_rank)),
                             JobAmount(At(s[o.source_vehicle],
                                          o.source_rank + 1)))
  IN [am EXCEPT ![o.target_vehicle] = AmountAdd(am[o.target_vehicle], mv_amount)]

\* or_opt::apply, the cached amounts.
apply_amounts(s, am, o) ==
  LET mv_amount == AmountAdd(JobAmount(At(s[o.source_vehicle], o.source_rank)),
                             JobAmount(At(s[o.source_vehicle],
                                          o.source_rank + 1)))
  IN [am EXCEPT ![o.target_vehicle] = AmountAdd(am[o.target_vehicle], mv_amount),
                ![o.source_vehicle] = AmountSub(am[o.source_vehicle], mv_amount)]

\* ------------------------------------------------------------------------
\* choose_invalid_route: the problem handed to the validator.
\* ------------------------------------------------------------------------
\* std::numeric_limits<Duration>::max(), scaled to the integers of the
\* model checker (Duration is a 32-bit unsigned integer).
DurationMax == 1073741823
Unset == 0 - 1

\* Duration subtraction: unsigned, wraps around.
USub(a, b) == IF a >= b THEN a - b ELSE a - b + DurationMax + 1
Max2(a, b) == IF a >= b THEN a ELSE b
Min2(a, b) == IF a <= b THEN a ELSE b

TW(a, b) == [start |-> a, end |-> b]
DefaultTW == TW(0, DurationMax)
\* TimeWindow::is_default
is_default(tw) == tw.start = 0 /\ tw.end = DurationMax

\* input.jobs: job rank r is VJobCatalog[r + 1]. The delivery of a pickup
\* has the rank of the pickup plus one.
VJobCatalog ==
  << [type |-> "single", index |-> 2, service |-> 0, tws |-> <<TW(0, 0)>>,
      pickup |-> 0, delivery |-> 2, skills |-> {}, priority |-> 0],
     [type |-> "pickup", index |-> 2, service |-> 1, tws |-> <<DefaultTW>>,
      pickup |-> 2, delivery |-> 0, skills |-> {}, priority |-> 1],
     [type |-> "delivery", index |-> 3, service |-> 0,
      tws |-> <<TW(1, 1), TW(7, 7)>>,
      pickup |-> 0, delivery |-> 2, skills |-> {}, priority |-> 1],
     [type |-> "single", index |-> 0, service |-> 0, tws |-> <<TW(5, 5)>>,
      pickup |-> 1, delivery |-> 1, skills |-> {1}, priority |-> 2] >>
\* v.breaks: break rank r is VBreakCatalog[r + 1]. A vehicle has the first
\* nb_breaks of them; the second has the default time window.
VBreakCatalog ==
  << [id |-> 1, service |-> 1, tws |-> <<TW(2, 4)>>],
     [id |-> 2, service |-> 1, tws |-> <<DefaultTW>>] >>
VJobRanks == 0 .. (Len(VJobCatalog) - 1)
VBreakRanks == 0 .. (Len(VBreakCatalog) - 1)

\* input.get_matrix() for the validator; the vehicle starts and ends at
\* index 0.
VMatrix(i, j) ==
  IF i = j THEN 0
  ELSE IF i = 2 /\ j = 3 THEN 2
  ELSE IF i = 3 /\ j = 0 THEN 2
  ELSE 1
VStartIndex == 0
VEndIndex == 0

NoForced == [at |-> Unset, after |-> Unset, before |-> Unset]
StepTws(step) ==
  IF step.type = "job" THEN VJobCatalog[step.rank + 1].tws
  ELSE VBreakCatalog[step.rank + 1].tws
StepService(step) ==
  IF step.type = "job" THEN VJobCatalog[step.rank + 1].service
  ELSE IF step.type = "break" THEN VBreakCatalog[step.rank + 1].service
  ELSE 0

\* ------------------------------------------------------------------------
\* choose_invalid_route: what is computed before the MIP is built.
\* ------------------------------------------------------------------------
\* The first loop over the steps: J, B, durations, the bounds of the
\* planning horizon, the sums of services and travel times.
RECURSIVE scan_steps(_, _, _)
scan_steps(vi, k, acc) ==
  IF k > Len(vi.steps) THEN acc
  ELSE
    LET step == vi.steps[k]
        next ==
          CASE step.type = "start" ->
                 [acc EXCEPT !.last_index = IF vi.has_start THEN VStartIndex
                                            ELSE Unset,
                             !.J = Append(@, acc.i),
                             !.B = Append(@, 0),
                             !.i = @ + 1]
            [] step.type = "job" ->
                 LET job == VJobCatalog[step.rank + 1]
                     current_duration ==
                       IF acc.last_index # Unset
                       THEN VMatrix(acc.last_index, job.index) ELSE 0
                     dflt == is_default(job.tws[1])
                 IN [acc EXCEPT
                       !.K = @ + Len(job.tws),
                       !.J = Append(@, acc.i),
                       !.B = Append(@, 0),
                       !.service_sum = @ + job.service,
                       !.default_job_tw = IF dflt THEN @ + 1 ELSE @,
                       !.horizon_start =
                          IF dflt THEN @ ELSE Min2(@, job.tws[1].start),
                       !.horizon_end =
                          IF dflt THEN @
                          ELSE Max2(@, job.tws[Len(job.tws)].end),
                       !.durations = Append(@, current_duration),
                       !.duration_sum = @ + current_duration,
                       !.last_index = job.index,
                       !.i = @ + 1]
            [] step.type = "break" ->
                 LET b == VBreakCatalog[step.rank + 1]
                     dflt == is_default(b.tws[1])
                 IN [acc EXCEPT
                       !.K = @ + Len(b.tws),
                       !.B[Len(acc.B)] = @ + 1,
                       !.i = @ + 1,
                       !.service_sum = @ + b.service,
                       !.horizon_start =
                          IF dflt THEN @ ELSE Min2(@, b.tws[1].start),
                       !.horizon_end =
                          IF dflt THEN @ ELSE Max2(@, b.tws[Len(b.tws)].end)]
            [] OTHER ->
                 IF vi.has_end
                 THEN LET current_duration == VMatrix(acc.last_index, VEndIndex)
                      IN [acc EXCEPT
                            !.durations = Append(@, current_duration),
                            !.duration_sum = @ + current_duration]
                 ELSE [acc EXCEPT !.durations = Append(@, 0)]
    IN scan_steps(vi, k + 1, next)

first_scan(vi) ==
  scan_steps(vi, 1,
             [K |-> 0, J |-> <<>>, B |-> <<>>, durations |-> <<>>,
              horizon_start |-> IF is_default(vi.tw) THEN DurationMax
                                ELSE Min2(DurationMax, vi.tw.start),
              horizon_end |-> IF is_default(vi.tw) THEN 0
                              ELSE Max2(0, vi.tw.end),
              last_index |-> Unset, service_sum |-> 0, duration_sum |-> 0,
              default_job_tw |-> 0, i |-> 0])

\* "Refine planning horizon": makespan_estimate and the horizon bounds.
refine_horizon(sc) ==
  LET makespan_estimate == sc.duration_sum + sc.service_sum
  IN IF sc.horizon_start = DurationMax
     THEN [makespan_estimate |-> makespan_estimate, horizon_start |-> 0,
           horizon_end |-> 10 * makespan_estimate]
     ELSE LET est == IF makespan_estimate = 0
                     THEN sc.horizon_end - sc.horizon_start
                     ELSE makespan_estimate
          IN [makespan_estimate |-> est,
              horizon_start |-> IF est < sc.horizon_start
                                THEN sc.horizon_start - est ELSE 0,
              horizon_end |-> sc.horizon_end + est]

\* The window that ends before LB is discarded whenever another follows.
first_relevant_AlwaysNext(tws, LB) ==
  LET cands == {r \in 1 .. Len(tws) : tws[r].start <= LB}
  IN IF cands = {} THEN 0
     ELSE LET r == CHOOSE x \in cands : \A y \in cands : y <= x
          IN IF tws[r].end < LB /\ r # Len(tws)
             THEN r
             ELSE r - 1

\* Rank of the first relevant time window of a task whose service cannot
\* start before LB.
first_relevant(tws, LB) ==
  LET cands == {r \in 1 .. Len(tws) : tws[r].start <= LB}
  IN IF cands = {} THEN 0
     ELSE LET r == CHOOSE x \in cands : \A y \in cands : y <= x
          IN IF tws[r].end < LB /\ r # Len(tws)
                /\ USub(tws[r + 1].start, LB) < USub(LB, tws[r].end)
             THEN r
             ELSE r - 1

\* The lower bound of a break takes the travel of the segment as well.
RECURSIVE scan_bounds_BreakTravel(_, _, _, _)
scan_bounds_BreakTravel(vi, sc, k, acc) ==
  IF k > Len(vi.steps) THEN acc
  ELSE
    LET step == vi.steps[k]
        f == step.forced
        hs1 == IF f.at # Unset THEN Min2(acc.horizon_start, f.at)
               ELSE acc.horizon_start
        he1 == IF f.at # Unset THEN Max2(acc.horizon_end, f.at)
               ELSE acc.horizon_end
        hs2 == IF f.after # Unset THEN Min2(hs1, f.after) ELSE hs1
        he2 == IF f.after # Unset THEN Max2(he1, f.after) ELSE he1
        hs3 == IF f.before # Unset THEN Min2(hs2, f.before) ELSE hs2
        he3 == IF f.before # Unset THEN Max2(he2, f.before) ELSE he2
        LB0 == IF f.after # Unset THEN f.after
               ELSE IF f.at # Unset THEN f.at ELSE acc.horizon_start
        UB == IF f.before # Unset THEN f.before
              ELSE IF f.at # Unset THEN f.at ELSE acc.horizon_end
        LB == CASE step.type = "start" -> LB0
                [] step.type = "job" ->
                     Max2(LB0, acc.previous_LB + acc.previous_service
                               + acc.previous_travel)
                [] step.type = "break" ->
                     Max2(LB0, acc.previous_LB + acc.previous_service
                               + acc.previous_travel)
                [] OTHER ->
                     Max2(LB0, acc.previous_LB + acc.previous_service
                               + acc.previous_travel)
        moved ==
          CASE step.type = "start" ->
                 [acc EXCEPT !.previous_LB = LB, !.rank_in_J = @ + 1]
            [] step.type = "job" ->
                 [acc EXCEPT !.previous_LB = LB,
                             !.previous_service = StepService(step),
                             !.previous_travel = sc.durations[acc.rank_in_J + 1],
                             !.rank_in_J = @ + 1]
            [] step.type = "break" ->
                 [acc EXCEPT !.previous_LB = LB,
                             !.previous_service = StepService(step)]
            [] OTHER -> acc
        next ==
          [moved EXCEPT
             !.horizon_start = hs3,
             !.horizon_end = he3,
             !.t_i_LB = Append(@, LB),
             !.t_i_UB = Append(@, UB),
             !.first_relevant_tw_rank =
                IF step.type \in {"job", "break"}
                THEN Append(@, first_relevant(StepTws(step), LB)) ELSE @]
    IN scan_bounds_BreakTravel(vi, sc, k + 1, next)

\* The second loop over the steps: t_i_LB, t_i_UB, first_relevant_tw_rank,
\* the horizon being widened by the forced service times met on the way.
RECURSIVE scan_bounds(_, _, _, _)
scan_bounds(vi, sc, k, acc) ==
  IF k > Len(vi.steps) THEN acc
  ELSE
    LET step == vi.steps[k]
        f == step.forced
        hs1 == IF f.at # Unset THEN Min2(acc.horizon_start, f.at)
               ELSE acc.horizon_start
        he1 == IF f.at # Unset THEN Max2(acc.horizon_end, f.at)
               ELSE acc.horizon_end
        hs2 == IF f.after # Unset THEN Min2(hs1, f.after) ELSE hs1
        he2 == IF f.after # Unset THEN Max2(he1, f.after) ELSE he1
        hs3 == IF f.before # Unset THEN Min2(hs2, f.before) ELSE hs2
        he3 == IF f.before # Unset THEN Max2(he2, f.before) ELSE he2
        LB0 == IF f.after # Unset THEN f.after
               ELSE IF f.at # Unset THEN f.at ELSE acc.horizon_start
        UB == IF f.before # Unset THEN f.before
              ELSE IF f.at # Unset THEN f.at ELSE acc.horizon_end
        LB == CASE step.type = "start" -> LB0
                [] step.type = "job" ->
                     Max2(LB0, acc.previous_LB + acc.previous_service
                               + acc.previous_travel)
                [] step.type = "break" ->
                     Max2(LB0, acc.previous_LB + acc.previous_service)
                [] OTHER ->
                     Max2(LB0, acc.previous_LB + acc.previous_service
                               + acc.previous_travel)
        moved ==
          CASE step.type = "start" ->
                 [acc EXCEPT !.previous_LB = LB, !.rank_in_J = @ + 1]
            [] step.type = "job" ->
                 [acc EXCEPT !.previous_LB = LB,
                             !.previous_service = StepService(step),
                             !.previous_travel = sc.durations[acc.rank_in_J + 1],
                             !.rank_in_J = @ + 1]
            [] step.type = "break" ->
                 [acc EXCEPT !.previous_LB = LB,
                             !.previous_service = StepService(step)]
            [] OTHER -> acc
        next ==
          [moved EXCEPT
             !.horizon_start = hs3,
             !.horizon_end = he3,
             !.t_i_LB = Append(@, LB),
             !.t_i_UB = Append(@, UB),
             !.first_relevant_tw_rank =
                IF step.type \in {"job", "break"}
                THEN Append(@, first_relevant(StepTws(step), LB)) ELSE @]
    IN scan_bounds(vi, sc, k + 1, next)

\* Everything choose_invalid_route knows when it creates the MIP.
problem(vi) ==
  LET sc == first_scan(vi)
      hz == refine_horizon(sc)
      bd == scan_bounds(vi, sc, 1,
                        [horizon_start |-> hz.horizon_start,
                         horizon_end |-> hz.horizon_end,
                         previous_LB |-> hz.horizon_start,
                         previous_service |-> 0,
                         previous_travel |-> sc.durations[1],
                         rank_in_J |-> 0,
                         t_i_LB |-> <<>>, t_i_UB |-> <<>>,
                         first_relevant_tw_rank |-> <<>>])
  IN [n |-> Len(vi.steps) - 2, K |-> sc.K,
      J |-> sc.J, B |-> sc.B, durations |-> sc.durations,
      makespan_estimate |-> hz.makespan_estimate,
      horizon_start |-> bd.horizon_start,
      horizon_end |-> bd.horizon_end,
      t_i_LB |-> bd.t_i_LB, t_i_UB |-> bd.t_i_UB,
      first_relevant_tw_rank |-> bd.first_relevant_tw_rank]

\* ------------------------------------------------------------------------
\* choose_invalid_route: the MIP. A solution gives every column of the
\* problem an integer value: t (service start of step i, relative to
\* horizon_start), x (rank of the time window picked for task i, i.e. the
\* k with X_i_k = 1), delta (travel time after step i) and y (violation
\* measure of step i).
\* ------------------------------------------------------------------------
\* Column bounds of t_i (step rank i in 0 .. n + 1).
t_lo(P, i) == USub(P.t_i_LB[i + 1], P.horizon_start)
t_hi(P, i) == USub(P.t_i_UB[i + 1], P.horizon_start)

\* Rows P_i without the service of step i.
RECURSIVE extend_NoService(_, _, _, _, _, _)
extend_NoService(vi, P, i, ti, rem, r) ==
  IF i = P.n + 1 THEN {[t |-> <<>>, delta |-> <<>>]}
  ELSE
    LET nxt == vi.steps[i + 2]
        ds == IF nxt.type = "break" THEN 0 .. rem ELSE {rem}
    IN UNION {
         UNION {
           {[t |-> <<tn>> \o s.t, delta |-> <<d>> \o s.delta] :
              s \in extend_NoService(vi, P, i + 1, tn,
                           IF nxt.type = "break" THEN rem - d
                           ELSE IF nxt.type = "job" THEN P.durations[r + 2]
                           ELSE 0,
                           IF nxt.type = "job" THEN r + 1 ELSE r)} :
           tn \in Max2(t_lo(P, i + 1), ti + d) .. t_hi(P, i + 1)} :
         d \in ds}

\* Rows P_i and Delta_r: all values of t_{i+1} .. t_{n+1} and
\* delta_i .. delta_n that follow step i served at ti, where rem is what is
\* left of durations[r] for the deltas from delta_i on.
RECURSIVE extend(_, _, _, _, _, _)
extend(vi, P, i, ti, rem, r) ==
  IF i = P.n + 1 THEN {[t |-> <<>>, delta |-> <<>>]}
  ELSE
    LET nxt == vi.steps[i + 2]
        ds == IF nxt.type = "break" THEN 0 .. rem ELSE {rem}
        service == StepService(vi.steps[i + 1])
    IN UNION {
         UNION {
           {[t |-> <<tn>> \o s.t, delta |-> <<d>> \o s.delta] :
              s \in extend(vi, P, i + 1, tn,
                           IF nxt.type = "break" THEN rem - d
                           ELSE IF nxt.type = "job" THEN P.durations[r + 2]
                           ELSE 0,
                           IF nxt.type = "job" THEN r + 1 ELSE r)} :
           tn \in Max2(t_lo(P, i + 1), ti + service + d) .. t_hi(P, i + 1)} :
         d \in ds}

\* Values of the t and delta columns that satisfy the column bounds and the
\* rows P_i and Delta_r.
schedules(vi, P) ==
  UNION {{[t |-> <<t0>> \o s.t, delta |-> s.delta] :
            s \in extend(vi, P, 0, t0, P.durations[1], 0)} :
         t0 \in t_lo(P, 0) .. t_hi(P, 0)}

\* Rows S_i and the X columns fixed at 0: the time window ranks task i may
\* pick.
tw_choices(vi, P, i) ==
  {k \in 0 .. (Len(StepTws(vi.steps[i + 1])) - 1) :
     k >= P.first_relevant_tw_rank[i]}
x_choices(vi, P) ==
  {x \in [1 .. P.n -> 0 .. (P.K - 1)] :
     \A i \in 1 .. P.n : x[i] \in tw_choices(vi, P, i)}

\* Rows L_i and D_i: the least value of Y_i given t_i and the picked window.
min_y(vi, P, i, ti, k) ==
  IF i = 0
  THEN LET start_LB == IF is_default(vi.tw) THEN 0
                       ELSE USub(vi.tw.start, P.horizon_start)
       IN Max2(0, start_LB - ti)
  ELSE IF i = P.n + 1
  THEN Max2(0, ti - USub(vi.tw.end, P.horizon_start))
  ELSE LET step == vi.steps[i + 1]
           tws == StepTws(step)
       IN IF step.type = "job" /\ is_default(tws[1])
          THEN Max2(0, ti - P.horizon_end)
          ELSE Max2(0, Max2(USub(tws[k + 1].start, P.horizon_start) - ti,
                            ti - USub(tws[k + 1].end, P.horizon_start)))
min_ys(vi, P, t, x) ==
  [i \in 1 .. (P.n + 2) |->
     min_y(vi, P, i - 1, t[i], IF i \in 2 .. (P.n + 1) THEN x[i - 1] ELSE 0)]

\* Every assignment the rows and the column bounds allow, each with the
\* least Y the rows L_i and D_i allow.
feasible(vi, P) ==
  {[t |-> s.t, delta |-> s.delta, x |-> x, y |-> min_ys(vi, P, s.t, x)] :
     s \in schedules(vi, P), x \in x_choices(vi, P)}

makespan(P, s) == s.t[P.n + 2] - s.t[1]

\* A plausible slip: the weights of the first round swapped.
objective_1_Swapped(P, s) ==
  P.makespan_estimate * makespan(P, s) + SumSeq(s.y)

\* Objective of the first round.
objective_1(P, s) ==
  P.makespan_estimate * SumSeq(s.y) + makespan(P, s)

\* Objective of the second round.
delta_weight(vi, i) ==
  Cardinality({j \in 1 .. i : \A l \in j .. i : vi.steps[l + 1].type = "break"})
delta_sum_majorant(P) ==
  SumSeq([r \in 1 .. Len(P.B) |-> P.B[r] * P.durations[r]])
objective_2(vi, P, s) ==
  LET M == IF delta_sum_majorant(P) = 0 THEN 1 ELSE delta_sum_majorant(P)
  IN M * SumSeq([i \in 1 .. P.n |-> s.t[i + 1]])
     + SumSeq([i \in 1 .. (P.n + 1) |-> delta_weight(vi, i - 1) * s.delta[i]])

\* The least member of a non-empty set of numbers.
Least(vals) == CHOOSE b \in vals : \A c \in vals : b <= c

\* What glp_intopt may leave in the columns after the first round: any
\* optimum. The data being integers, so are the solutions considered; when
\* makespan_estimate is 0 the Y columns weigh nothing and are taken at the
\* least values the rows allow.
round_1_optima(vi, P) ==
  LET F == feasible(vi, P)
      best == Least({objective_1(P, s) : s \in F})
  IN {s \in F : objective_1(P, s) = best}

\* All ways of raising the entries of y so that they sum to total.
RECURSIVE raise_to(_, _)
raise_to(y, total) ==
  IF Len(y) = 0 THEN IF total = 0 THEN {<<>>} ELSE {}
  ELSE UNION {{<<v>> \o rest : rest \in raise_to(Tail(y), total - v)} :
              v \in Head(y) .. Max2(Head(y), total - SumSeq(Tail(y)))}

\* What glp_intopt may leave in the columns after the second round, the
\* rows Makespan and Sigma_Y being fixed at best_makespan and sum_y_i.
round_2_optima(vi, P, best_makespan, sum_y_i) ==
  LET pinned == {s \in feasible(vi, P) :
                   /\ makespan(P, s) = best_makespan
                   /\ SumSeq(s.y) <= sum_y_i}
      best == Least({objective_2(vi, P, s) : s \in pinned})
  IN UNION {{[s EXCEPT !.y = y] : y \in raise_to(s.y, sum_y_i)} :
            s \in {q \in pinned : objective_2(vi, P, q) = best}}

\* ------------------------------------------------------------------------
\* choose_invalid_route: the route generated from the MIP solution.
\* ------------------------------------------------------------------------
NoViolations == [types |-> {}, lead_time |-> 0, delay |-> 0]

\* task_violations without the LOAD flag.
task_violations_NoLoad(tw, service_start, previous_over_capacity) ==
  [types |-> (IF service_start < tw.start THEN {"LEAD_TIME"} ELSE {})
             \cup (IF tw.end < service_start THEN {"DELAY"} ELSE {}),
   lead_time |-> IF service_start < tw.start
                 THEN USub(tw.start, service_start) ELSE 0,
   delay |-> IF tw.end < service_start
             THEN USub(service_start, tw.end) ELSE 0]

\* Lead time and delay of a task served at service_start with window tw.
task_violations(tw, service_start, previous_over_capacity) ==
  [types |-> (IF service_start < tw.start THEN {"LEAD_TIME"} ELSE {})
             \cup (IF tw.end < service_start THEN {"DELAY"} ELSE {})
             \cup (IF previous_over_capacity THEN {"LOAD"} ELSE {}),
   lead_time |-> IF service_start < tw.start
                 THEN USub(tw.start, service_start) ELSE 0,
   delay |-> IF tw.end < service_start
             THEN USub(service_start, tw.end) ELSE 0]

\* Startup load: the sum of the deliveries of the single jobs.
RECURSIVE startup_load(_, _)
startup_load(vi, k) ==
  IF k > Len(vi.steps) THEN 0
  ELSE (IF vi.steps[k].type = "job" /\ vi.steps[k].job_type = "single"
        THEN VJobCatalog[vi.steps[k].rank + 1].delivery ELSE 0)
       + startup_load(vi, k + 1)

\* output with the first time window taken for every task.
output_FirstWindow(P, s) ==
  [v_start |-> P.horizon_start + s.t[1],
   v_end |-> P.horizon_start + s.t[P.n + 2],
   start_lead_time |-> s.y[1],
   end_delay |-> s.y[P.n + 2],
   start_travel |-> s.delta[1],
   task_ETA |-> [i \in 1 .. P.n |-> P.horizon_start + s.t[i + 1]],
   task_travels |-> [i \in 1 .. P.n |-> s.delta[i + 1]],
   task_tw_ranks |-> [i \in 1 .. P.n |-> 0]]

\* The travel after the start step is not read.
output_NoStartTravel(P, s) ==
  [v_start |-> P.horizon_start + s.t[1],
   v_end |-> P.horizon_start + s.t[P.n + 2],
   start_lead_time |-> s.y[1],
   end_delay |-> s.y[P.n + 2],
   start_travel |-> 0,
   task_ETA |-> [i \in 1 .. P.n |-> P.horizon_start + s.t[i + 1]],
   task_travels |-> [i \in 1 .. P.n |-> s.delta[i + 1]],
   task_tw_ranks |-> s.x]

\* Values read from the columns after the second round.
output(P, s) ==
  [v_start |-> P.horizon_start + s.t[1],
   v_end |-> P.horizon_start + s.t[P.n + 2],
   start_lead_time |-> s.y[1],
   end_delay |-> s.y[P.n + 2],
   start_travel |-> s.delta[1],
   task_ETA |-> [i \in 1 .. P.n |-> P.horizon_start + s.t[i + 1]],
   task_travels |-> [i \in 1 .. P.n |-> s.delta[i + 1]],
   task_tw_ranks |-> s.x]

\* The loop over the steps that builds sol_steps.
RECURSIVE route_steps(_, _, _, _)
route_steps(vi, out, k, acc) ==
  IF k > Len(vi.steps) THEN acc
  ELSE
    LET step == vi.steps[k]
        arrival == acc.previous_start + acc.previous_service
                   + acc.previous_travel
        next ==
          CASE step.type = "start" -> acc
            [] step.type = "job" ->
                 LET job_rank == step.rank
                     job == VJobCatalog[job_rank + 1]
                     current_load == acc.current_load + job.pickup
                                     - job.delivery
                     service_start == out.task_ETA[acc.task_rank + 1]
                     tw == job.tws[out.task_tw_ranks[acc.task_rank + 1] + 1]
                     over_capacity == ~(current_load <= vi.capacity)
                     timing == task_violations(tw, service_start,
                                 acc.previous_over_capacity \/ over_capacity)
                     late_delivery ==
                       job.type = "delivery"
                       /\ job_rank \notin acc.expected_delivery_ranks
                     early_pickup ==
                       job.type = "pickup"
                       /\ (job_rank + 1) \in acc.delivery_first_ranks
                     types == timing.types
                              \cup (IF ~(job.skills \subseteq vi.skills)
                                    THEN {"SKILLS"} ELSE {})
                              \cup (IF late_delivery \/ early_pickup
                                    THEN {"PRECEDENCE"} ELSE {})
                     current ==
                       [step_type |-> "job", rank |-> job_rank,
                        load |-> current_load,
                        duration |-> acc.duration + acc.previous_travel,
                        arrival |-> arrival,
                        waiting_time |-> USub(service_start, arrival),
                        violations |-> [timing EXCEPT !.types = types]]
                 IN [acc EXCEPT
                       !.service = @ + job.service,
                       !.priority = @ + job.priority,
                       !.current_load = current_load,
                       !.sum_pickups = @ + job.pickup,
                       !.sum_deliveries = @ + job.delivery,
                       !.sol_steps = Append(@, current),
                       !.duration = @ + acc.previous_travel,
                       !.forward_wt = @ + current.waiting_time,
                       !.lead_time = @ + timing.lead_time,
                       !.delay = @ + timing.delay,
                       !.v_types = @ \cup types,
                       !.previous_over_capacity = over_capacity,
                       !.expected_delivery_ranks =
                          IF job.type = "pickup" /\ ~early_pickup
                          THEN @ \cup {job_rank + 1}
                          ELSE IF job.type = "delivery" THEN @ \ {job_rank}
                          ELSE @,
                       !.delivery_to_pickup_step_rank =
                          IF job.type = "pickup" /\ ~early_pickup
                             /\ \A e \in @ : e[1] # job_rank + 1
                          THEN @ \cup {<<job_rank + 1, Len(acc.sol_steps)>>}
                          ELSE @,
                       !.delivery_first_ranks =
                          IF late_delivery THEN @ \cup {job_rank} ELSE @,
                       !.unassigned = @ \ {job_rank},
                       !.previous_start = service_start,
                       !.previous_service = job.service,
                       !.previous_travel = out.task_travels[acc.task_rank + 1],
                       !.task_rank = @ + 1]
            [] step.type = "break" ->
                 LET b == VBreakCatalog[step.rank + 1]
                     service_start == out.task_ETA[acc.task_rank + 1]
                     tw == b.tws[out.task_tw_ranks[acc.task_rank + 1] + 1]
                     timing == task_violations(tw, service_start,
                                               acc.previous_over_capacity)
                     current ==
                       [step_type |-> "break", rank |-> step.rank,
                        load |-> acc.current_load,
                        duration |-> acc.duration + acc.previous_travel,
                        arrival |-> arrival,
                        waiting_time |-> USub(service_start, arrival),
                        violations |-> timing]
                 IN [acc EXCEPT
                       !.break_ids = @ \ {b.id},
                       !.service = @ + b.service,
                       !.sol_steps = Append(@, current),
                       !.duration = @ + acc.previous_travel,
                       !.forward_wt = @ + current.waiting_time,
                       !.lead_time = @ + timing.lead_time,
                       !.delay = @ + timing.delay,
                       !.v_types = @ \cup timing.types,
                       !.previous_start = service_start,
                       !.previous_service = b.service,
                       !.previous_travel = out.task_travels[acc.task_rank + 1],
                       !.task_rank = @ + 1]
            [] OTHER ->
                 IF vi.has_end
                 THEN LET late == vi.tw.end < out.v_end
                          dl == IF late THEN USub(out.v_end, vi.tw.end) ELSE 0
                          types == (IF late THEN {"DELAY"} ELSE {})
                                   \cup (IF acc.previous_over_capacity
                                         THEN {"LOAD"} ELSE {})
                          current ==
                            [step_type |-> "end", rank |-> VEndIndex,
                             load |-> acc.current_load,
                             duration |-> acc.duration + acc.previous_travel,
                             arrival |-> arrival,
                             waiting_time |-> USub(out.v_end, arrival),
                             violations |-> [types |-> types, lead_time |-> 0,
                                             delay |-> dl]]
                      IN [acc EXCEPT
                            !.duration = @ + acc.previous_travel,
                            !.sol_steps = Append(@, current),
                            !.forward_wt = @ + current.waiting_time,
                            !.delay = @ + dl,
                            !.v_types = @ \cup types]
                 ELSE acc
    IN route_steps(vi, out, k + 1, next)

\* No pickup is flagged after the loop.
lonely_pickup_steps_None(acc) == {}

\* The places in sol_steps of the pickups whose delivery is still expected
\* after the loop.
lonely_pickup_steps(acc) ==
  {e[2] : e \in {d \in acc.delivery_to_pickup_step_rank :
                   d[1] \in acc.expected_delivery_ranks}}

\* "Generate route": the Route built from the values read from the columns,
\* and the ranks left in unassigned_ranks.
generate_route(vi, P, s, unassigned) ==
  LET out == output(P, s)
      current_load == startup_load(vi, 1)
      previous_over_capacity == ~(current_load <= vi.capacity)
      early == out.v_start < vi.tw.start
      start_step ==
        [step_type |-> "start", rank |-> VStartIndex, load |-> current_load,
         duration |-> 0, arrival |-> out.v_start, waiting_time |-> 0,
         violations |->
           [types |-> (IF early THEN {"LEAD_TIME"} ELSE {})
                      \cup (IF previous_over_capacity THEN {"LOAD"} ELSE {}),
            lead_time |-> IF early THEN USub(vi.tw.start, out.v_start) ELSE 0,
            delay |-> 0]]
      acc0 ==
        [sol_steps |-> IF vi.has_start THEN <<start_step>> ELSE <<>>,
         duration |-> 0, service |-> 0, forward_wt |-> 0, priority |-> 0,
         sum_pickups |-> 0, sum_deliveries |-> 0,
         current_load |-> current_load,
         lead_time |-> IF vi.has_start THEN start_step.violations.lead_time
                       ELSE out.start_lead_time,
         delay |-> 0,
         v_types |-> IF vi.has_start THEN start_step.violations.types ELSE {},
         previous_over_capacity |-> previous_over_capacity,
         expected_delivery_ranks |-> {}, delivery_first_ranks |-> {},
         delivery_to_pickup_step_rank |-> {},
         break_ids |-> {VBreakCatalog[r].id : r \in 1 .. vi.nb_breaks},
         unassigned |-> unassigned,
         previous_start |-> out.v_start, previous_service |-> 0,
         previous_travel |-> out.start_travel, task_rank |-> 0]
      acc == route_steps(vi, out, 1, acc0)
      lonely == lonely_pickup_steps(acc)
      sol_steps ==
        [i \in 1 .. Len(acc.sol_steps) |->
           IF (i - 1) \in lonely
           THEN [acc.sol_steps[i] EXCEPT
                   !.violations.types = @ \cup {"PRECEDENCE"}]
           ELSE acc.sol_steps[i]]
      delay == IF vi.has_end THEN acc.delay ELSE acc.delay + out.end_delay
      v_types == acc.v_types
                 \cup (IF acc.expected_delivery_ranks # {}
                       THEN {"PRECEDENCE"} ELSE {})
                 \cup (IF acc.break_ids # {} THEN {"MISSING_BREAK"} ELSE {})
  IN [route |->
        [vehicle |-> vi.id, steps |-> sol_steps, cost |-> acc.duration,
         service |-> acc.service, duration |-> acc.duration,
         waiting_time |-> acc.forward_wt, priority |-> acc.priority,
         delivery |-> acc.sum_deliveries, pickup |-> acc.sum_pickups,
         violations |-> [lead_time |-> acc.lead_time, delay |-> delay,
                         start_lead_time |-> out.start_lead_time,
                         end_delay |-> out.end_delay, types |-> v_types]],
      unassigned_ranks |-> acc.unassigned]

\* ------------------------------------------------------------------------
\* choose_invalid_route: the calls explored.
\* ------------------------------------------------------------------------
VTasks ==
  {[type |-> "job", rank |-> r, job_type |-> VJobCatalog[r + 1].type] :
     r \in VJobRanks}
  \cup {[type |-> "break", rank |-> r, job_type |-> "single"] :
          r \in VBreakRanks}

\* Sequences of k distinct tasks.
RECURSIVE TaskSeqs(_)
TaskSeqs(k) ==
  IF k = 0 THEN {<<>>}
  ELSE {Append(p[1], p[2]) :
          p \in {q \in TaskSeqs(k - 1) \X VTasks :
                   \A i \in 1 .. Len(q[1]) : q[1][i] # q[2]}}

\* Forced service times: none; the start forced at 3; the last task forced
\* before 1; the last task forced at 1; the last task forced after 1.
ForcedProfiles == {"none", "start_at", "last_before"}
forced_of(profile, k, n) ==
  IF profile = "start_at" /\ k = 0 THEN [NoForced EXCEPT !.at = 3]
  ELSE IF profile = "last_before" /\ k = n THEN [NoForced EXCEPT !.before = 1]
  ELSE IF profile = "last_at" /\ k = n THEN [NoForced EXCEPT !.at = 1]
  ELSE IF profile = "last_after" /\ k = n
  THEN [NoForced EXCEPT !.after = 1]
  ELSE NoForced

input_steps(tasks, profile) ==
  LET n == Len(tasks)
  IN <<[type |-> "start", rank |-> 0, job_type |-> "single",
        forced |-> forced_of(profile, 0, n)]>>
     \o [k \in 1 .. n |->
           [type |-> tasks[k].type, rank |-> tasks[k].rank,
            job_type |-> tasks[k].job_type,
            forced |-> forced_of(profile, k, n)]]
     \o <<[type |-> "end", rank |-> 0, job_type |-> "single",
           forced |-> NoForced]>>

VehicleTWs == {DefaultTW, TW(1, 3)}

\* A route holds at least one job. Sequences of more than two tasks are
\* explored without forced service, for a vehicle of capacity 3 with a time
\* window.
VCalls(capacity, tws, profiles) ==
  {vi \in
     {[id |-> 7, has_start |-> hs, has_end |-> he, tw |-> tw,
       capacity |-> capacity, skills |-> {}, nb_breaks |-> 1,
       steps |-> input_steps(tasks, profile)] :
        hs \in BOOLEAN, he \in BOOLEAN, tw \in tws,
        tasks \in {s \in UNION {TaskSeqs(k) : k \in 1 .. MaxTasks} :
                     /\ \E i \in 1 .. Len(s) : s[i].type = "job"
                     /\ \A i \in 1 .. Len(s) :
                          s[i].type = "break" => s[i].rank = 0},
        profile \in profiles} :
     Len(vi.steps) > 4
       => /\ ~is_default(vi.tw)
          /\ vi.capacity = 3
          /\ \A i \in 1 .. Len(vi.steps) : vi.steps[i].forced = NoForced}

\* The calls for a vehicle with two breaks and no time window: a job that
\* has a time window and the break that has the default time window.
VCallsDefaultBreak ==
  {[id |-> 7, has_start |-> hs, has_end |-> he, tw |-> DefaultTW,
    capacity |-> 3, skills |-> {}, nb_breaks |-> 2,
    steps |-> input_steps(tasks, "none")] :
     hs \in BOOLEAN, he \in BOOLEAN,
     tasks \in {s \in TaskSeqs(2) :
                  /\ \E i \in 1 .. Len(s) :
                       /\ s[i].type = "job"
                       /\ ~is_default(VJobCatalog[s[i].rank + 1].tws[1])
                  /\ \E i \in 1 .. Len(s) :
                       s[i].type = "break" /\ s[i].rank = 1}}

\* Capacity 3 holds the deliveries of the two single jobs, capacity 2 does
\* not. The last task forced at 1 or after 1 is explored for a vehicle
\* without time window.
VInputs ==
  VCalls(3, VehicleTWs, ForcedProfiles) \cup VCalls(2, {TW(1, 3)}, {"none"})
  \cup VCalls(3, {DefaultTW}, {"last_at", "last_after"})
  \cup VCallsDefaultBreak

NoInput == [id |-> Unset, has_start |-> FALSE, has_end |-> FALSE,
            tw |-> DefaultTW, capacity |-> 0, skills |-> {}, nb_breaks |-> 0,
            steps |-> <<>>]
NoLp == [prob |-> FALSE, env |-> FALSE, makespan_fx |-> Unset,
         sigma_y_fx |-> Unset]
NoMip == [t |-> <<>>, delta |-> <<>>, x |-> <<>>, y |-> <<>>]
NoRoute == [vehicle |-> Unset]
NoError == [kind |-> "none", text |-> "", vehicle |-> Unset]

NoDocument == [kind |-> "null", v |-> 0, items |-> <<>>, members |-> <<>>]
NoLocals == [matrix_input |-> <<>>, necessary_indices |-> <<>>,
             index_counter |-> 0]
NoInputData == [vehicles |-> <<>>, jobs |-> <<>>, matrix |-> <<>>,
                location_number |-> 0]
NullDocument == [null |-> TRUE, code |-> "", message |-> "",
                 durations |-> <<>>]
NoResponse == [use_osrm_v5 |-> FALSE, m_size |-> 0,
               json_content |-> NullDocument, doc |-> NullDocument]
NoCounts == [m |-> <<>>, nb_unfound_from_loc |-> <<>>,
             nb_unfound_to_loc |-> <<>>]
NoMatrix == [kind |-> "none", m |-> <<>>, text |-> ""]

\* The workers: each is at a place of choose_invalid_route and has a
\* glp_prob that is absent, live, or freed under it.
Workers == 1 .. NumWorkers
NoWorker == [pc |-> "idle", prob |-> "none"]
WorkersIdle ==
  /\ wk = [w \in Workers |-> NoWorker]
  /\ glp_env = FALSE

NoCvrp == [pc |-> "idle", vehicles |-> <<>>, jobs |-> <<>>,
           clusters |-> <<>>, i |-> 0, tsp_sols |-> <<>>,
           routes |-> <<>>, total_cost |-> 0]
CvrpIdle == cv = NoCvrp

ParseIdle ==
  /\ json_input = NoDocument
  /\ ppc = "idle"
  /\ pl = NoLocals
  /\ input_data = NoInputData
  /\ thrown = ""

GetMatrixIdle ==
  /\ infos = NoResponse
  /\ gpc = "idle"
  /\ gl = NoCounts
  /\ gret = NoMatrix

ValidatorIdle ==
  /\ vin = NoInput
  /\ vpc = "idle"
  /\ lp = NoLp
  /\ status = "none"
  /\ mip = NoMip
  /\ result = NoRoute
  /\ err = NoError
  /\ unassigned_ranks = {}

\* ------------------------------------------------------------------------
\* Solutions.
\* ------------------------------------------------------------------------
\* Every way to put some of the jobs in the routes, each job at most once.
AllSolutions ==
  UNION {UNION {{[v \in Vehicles |-> sp[v + 1]] : sp \in Splits(p, NumVehicles)} :
                p \in Perms(sub)} :
         sub \in SUBSET Jobs}

RouteJobs(route) == {route[i] : i \in 1 .. Len(route)}
JobsOf(s) == UNION {RouteJobs(s[v]) : v \in Vehicles}
\* The number of places at which job j stands in the solution.
Occurrences(s, j) ==
  Cardinality({<<v, i>> \in Vehicles \X (1 .. NumJobs) :
                 i <= Len(s[v]) /\ s[v][i] = j})

\* The amount of a route computed from scratch.
RECURSIVE RouteAmount(_)
RouteAmount(route) ==
  IF route = <<>> THEN zero_amount
  ELSE AmountAdd(JobAmount(Head(route)), RouteAmount(Tail(route)))
FreshAmounts(s) == [v \in Vehicles |-> RouteAmount(s[v])]

\* The travel cost of route v: start (if any), the jobs, end (if any).
RouteCost(in, v, route) ==
  IF route = <<>> THEN 0
  ELSE (IF has_start(in, v)
        THEN Matrix(in, StartIndex(v), JobIndex(route[1])) ELSE 0)
       + SumSeq([i \in 1 .. (Len(route) - 1) |->
                   Matrix(in, JobIndex(route[i]), JobIndex(route[i + 1]))])
       + (IF has_end(in, v)
          THEN Matrix(in, JobIndex(route[Len(route)]), EndIndex(v)) ELSE 0)
TotalCost(in, s) == SumSeq([i \in 1 .. NumVehicles |-> RouteCost(in, i - 1, s[i - 1])])

CapacityOk(in, am) == \A v \in Vehicles : AmountLeq(am[v], Capacity(in, v))
SkillsOk(in, s) ==
  \A v \in Vehicles : \A j \in RouteJobs(s[v]) : vehicle_ok_with_job(in, v, j)
\* Every pickup of a route has its delivery later in the same route, and
\* every delivery its pickup earlier in the same route.
PairsOk(s) ==
  \A v \in Vehicles : \A i \in 1 .. Len(s[v]) :
    /\ JobType(s[v][i]) = "pickup" =>
         \E k \in (i + 1) .. Len(s[v]) : s[v][k] = s[v][i] + 1
    /\ JobType(s[v][i]) = "delivery" =>
         \E k \in 1 .. (i - 1) : s[v][k] = s[v][i] - 1

Capacities == {<<3, 3>>, <<6, 6>>}
Seeds == {0, 1}
\* Every start/end profile and matrix with loose constraints, and every
\* capacity and skill setting with one profile and matrix.
Inputs ==
  [profile : 0 .. 3, seed : Seeds, capacity : {<<6, 6>>}, skilled : {FALSE}]
  \cup [profile : {0}, seed : {0}, capacity : Capacities, skilled : BOOLEAN]
ApplyInput == [profile |-> 0, seed |-> 0, capacity |-> <<6, 6>>, skilled |-> FALSE]
NoBase == [sol |-> <<>>, amounts |-> <<>>, op |-> NoOp]

\* ------------------------------------------------------------------------
\* The local search on or_opt moves: each move has its gain computed, is
\* tested with is_valid, and is applied only when is_valid returned true.
\* ------------------------------------------------------------------------
Init ==
  /\ input \in Inputs
  /\ sol \in {s \in AllSolutions :
                /\ CapacityOk(input, FreshAmounts(s))
                /\ SkillsOk(input, s)
                /\ PairsOk(s)}
  /\ amounts = FreshAmounts(sol)
  /\ op = NoOp
  /\ stored_gain = 0
  /\ gain_computed = FALSE
  /\ valid = FALSE
  /\ lspc = "idle"
  /\ base = NoBase
  /\ undone = FALSE
  /\ ValidatorIdle
  /\ ParseIdle
  /\ GetMatrixIdle
  /\ WorkersIdle
  /\ CvrpIdle

\* The driver builds an or_opt object and calls compute_gain.
ComputeGain ==
  /\ lspc = "idle"
  /\ \E o \in AllOps :
       /\ OpOk(sol, o)
       /\ op' = o
       /\ stored_gain' =
            compute_gain(input, sol, o,
                         edge_gains(input, sol, o.source_vehicle, o.source_rank))
  /\ gain_computed' = TRUE
  /\ lspc' = "gain"
  /\ base' = NoBase
  /\ UNCHANGED <<input, sol, amounts, valid, undone>>
  /\ UNCHANGED <<vvars, pvars, gvars, wvars, cvars>>

\* The driver calls is_valid.
IsValid ==
  /\ lspc = "gain"
  /\ valid' = is_valid(input, sol, amounts, op)
  /\ lspc' = "checked"
  /\ UNCHANGED <<input, sol, amounts, op, stored_gain, gain_computed, base, undone>>
  /\ UNCHANGED <<vvars, pvars, gvars, wvars, cvars>>

\* The driver applies the move that is_valid accepted.
Apply ==
  /\ lspc = "checked"
  /\ valid
  /\ sol' = apply_sol(sol, op)
  /\ amounts' = apply_amounts(sol, amounts, op)
  /\ op' = NoOp
  /\ stored_gain' = 0
  /\ gain_computed' = FALSE
  /\ valid' = FALSE
  /\ lspc' = "idle"
  /\ base' = [sol |-> sol, amounts |-> amounts, op |-> op]
  /\ UNCHANGED <<input, undone>>
  /\ UNCHANGED <<vvars, pvars, gvars, wvars, cvars>>

\* The driver drops the move that is_valid refused.
Discard ==
  /\ lspc = "checked"
  /\ ~valid
  /\ op' = NoOp
  /\ stored_gain' = 0
  /\ gain_computed' = FALSE
  /\ lspc' = "idle"
  /\ UNCHANGED <<input, sol, amounts, valid, base, undone>>
  /\ UNCHANGED <<vvars, pvars, gvars, wvars, cvars>>

Next == ComputeGain \/ IsValid \/ Apply \/ Discard

vars == <<lsvars, vvars, pvars, gvars, wvars, cvars>>

Spec == Init /\ [][Next]_vars

\* ------------------------------------------------------------------------
\* Sequences of apply calls, whatever is_valid says.
\* ------------------------------------------------------------------------
InverseOp(o) ==
  [source_vehicle |-> o.target_vehicle, source_rank |-> o.target_rank,
   target_vehicle |-> o.source_vehicle, target_rank |-> o.source_rank]

InitApply ==
  /\ input = ApplyInput
  /\ sol \in AllSolutions
  /\ amounts = FreshAmounts(sol)
  /\ op = NoOp
  /\ stored_gain = 0
  /\ gain_computed = FALSE
  /\ valid = FALSE
  /\ lspc = "idle"
  /\ base = NoBase
  /\ undone = FALSE
  /\ ValidatorIdle
  /\ ParseIdle
  /\ GetMatrixIdle
  /\ WorkersIdle
  /\ CvrpIdle

\* apply() of any or_opt move meeting the preconditions.
ApplyAny ==
  /\ \E o \in AllOps :
       /\ OpOk(sol, o)
       /\ op' = o
       /\ sol' = apply_sol(sol, o)
       /\ amounts' = apply_amounts(sol, amounts, o)
       /\ base' = [sol |-> sol, amounts |-> amounts, op |-> o]
  /\ undone' = FALSE
  /\ UNCHANGED <<input, stored_gain, gain_computed, valid, lspc>>
  /\ UNCHANGED <<vvars, pvars, gvars, wvars, cvars>>

\* apply() of the inverse of the move applied last.
ApplyInverse ==
  /\ op # NoOp
  /\ ~undone
  /\ OpOk(sol, InverseOp(op))
  /\ sol' = apply_sol(sol, InverseOp(op))
  /\ amounts' = apply_amounts(sol, amounts, InverseOp(op))
  /\ undone' = TRUE
  /\ UNCHANGED <<input, op, stored_gain, gain_computed, valid, lspc, base>>
  /\ UNCHANGED <<vvars, pvars, gvars, wvars, cvars>>

NextApply == ApplyAny \/ ApplyInverse

SpecApply == InitApply /\ [][NextApply]_vars

\* ------------------------------------------------------------------------
\* One call of choose_invalid_route.
\* ------------------------------------------------------------------------
LocalSearchIdle ==
  /\ input = ApplyInput
  /\ sol = [v \in Vehicles |-> <<>>]
  /\ amounts = [v \in Vehicles |-> zero_amount]
  /\ op = NoOp
  /\ stored_gain = 0
  /\ gain_computed = FALSE
  /\ valid = FALSE
  /\ lspc = "idle"
  /\ base = NoBase
  /\ undone = FALSE

InitValidator ==
  /\ LocalSearchIdle
  /\ ParseIdle
  /\ GetMatrixIdle
  /\ WorkersIdle
  /\ CvrpIdle
  /\ vin \in VInputs
  /\ vpc = "entry"
  /\ lp = NoLp
  /\ status = "none"
  /\ mip = NoMip
  /\ result = NoRoute
  /\ err = NoError
  /\ unassigned_ranks = VJobRanks

\* Exception(ERROR::INPUT, "Infeasible route for vehicle " + id + ".")
infeasible_route(vi) ==
  [kind |-> "INPUT", text |-> "Infeasible route for vehicle", vehicle |-> vi.id]

\* The test made on the status after each round. A plausible slip: GLP_UNDEF
\* is let through.
no_solution_OnlyNoFeas(st) == st = "GLP_NOFEAS"
no_solution(st) == st = "GLP_UNDEF" \/ st = "GLP_NOFEAS"

\* The statuses glp_mip_status may report; GLP_FEAS is ruled out by an
\* assertion of the code.
MipStatuses == {"GLP_OPT", "GLP_NOFEAS", "GLP_UNDEF"}

\* The bounds and the horizon are computed, the problem is created, its
\* rows are added. New columns hold 0.
VCreate ==
  /\ vpc = "entry"
  /\ lp' = [prob |-> TRUE, env |-> TRUE, makespan_fx |-> Unset,
            sigma_y_fx |-> Unset]
  /\ mip' = LET n == Len(vin.steps) - 2
            IN [t |-> [i \in 1 .. (n + 2) |-> 0],
                delta |-> [i \in 1 .. (n + 1) |-> 0],
                x |-> [i \in 1 .. n |-> 0],
                y |-> [i \in 1 .. (n + 2) |-> 0]]
  /\ vpc' = "created"
  /\ UNCHANGED <<vin, status, result, err, unassigned_ranks>>
  /\ UNCHANGED <<lsvars, pvars, gvars, wvars, cvars>>

\* The columns are bounded: a step whose upper bound is below its lower
\* bound ends the call with an exception; else the matrix is loaded.
VSetCols ==
  /\ vpc = "created"
  /\ LET P == problem(vin)
     IN IF \E i \in 1 .. Len(vin.steps) : P.t_i_UB[i] < P.t_i_LB[i]
        THEN /\ vpc' = "thrown"
             /\ err' = infeasible_route(vin)
        ELSE /\ vpc' = "loaded"
             /\ err' = err
  /\ UNCHANGED <<vin, lp, status, mip, result, unassigned_ranks>>
  /\ UNCHANGED <<lsvars, pvars, gvars, wvars, cvars>>

\* First glp_intopt and glp_mip_status. GLPK works in floating point and
\* may fail; the status is its word, an optimal solution being stored only
\* with GLP_OPT.
VSolve1 ==
  /\ vpc = "loaded"
  /\ \E st \in MipStatuses :
       /\ status' = st
       /\ IF st = "GLP_OPT"
          THEN mip' \in round_1_optima(vin, problem(vin))
          ELSE mip' = mip
  /\ vpc' = "solved_1"
  /\ UNCHANGED <<vin, lp, result, err, unassigned_ranks>>
  /\ UNCHANGED <<lsvars, pvars, gvars, wvars, cvars>>

\* The status test after the first round.
VCheck1 ==
  /\ vpc = "solved_1"
  /\ IF no_solution(status)
     THEN /\ vpc' = "thrown"
          /\ err' = infeasible_route(vin)
     ELSE /\ vpc' = "round_2"
          /\ err' = err
  /\ UNCHANGED <<vin, lp, status, mip, result, unassigned_ranks>>
  /\ UNCHANGED <<lsvars, pvars, gvars, wvars, cvars>>

\* The objective is changed, the rows Makespan and Sigma_Y are fixed, then
\* second glp_intopt and glp_mip_status.
VSolve2 ==
  /\ vpc = "round_2"
  /\ LET P == problem(vin)
         best_makespan == USub(mip.t[P.n + 2], mip.t[1])
         sum_y_i == SumSeq(mip.y)
     IN /\ lp' = [lp EXCEPT !.makespan_fx = best_makespan,
                            !.sigma_y_fx = sum_y_i]
        /\ \E st \in MipStatuses :
             /\ status' = st
             /\ IF st = "GLP_OPT"
                THEN mip' \in round_2_optima(vin, P, best_makespan, sum_y_i)
                ELSE mip' = mip
  /\ vpc' = "solved_2"
  /\ UNCHANGED <<vin, result, err, unassigned_ranks>>
  /\ UNCHANGED <<lsvars, pvars, gvars, wvars, cvars>>

\* The status test after the second round.
VCheck2 ==
  /\ vpc = "solved_2"
  /\ IF no_solution(status)
     THEN /\ vpc' = "thrown"
          /\ err' = infeasible_route(vin)
     ELSE /\ vpc' = "solved"
          /\ err' = err
  /\ UNCHANGED <<vin, lp, status, mip, result, unassigned_ranks>>
  /\ UNCHANGED <<lsvars, pvars, gvars, wvars, cvars>>

\* The route is generated without touching unassigned_ranks.
VGenerate_KeepRanks ==
  /\ vpc = "solved"
  /\ result' = generate_route(vin, problem(vin), mip, unassigned_ranks).route
  /\ unassigned_ranks' = unassigned_ranks
  /\ lp' = [lp EXCEPT !.prob = FALSE, !.env = FALSE]
  /\ vpc' = "returned"
  /\ UNCHANGED <<vin, status, mip, err>>
  /\ UNCHANGED <<lsvars, pvars, gvars, wvars, cvars>>

\* The output is read, the problem is deleted, the environment is freed,
\* the route is generated and returned.
VGenerate ==
  /\ vpc = "solved"
  /\ LET g == generate_route(vin, problem(vin), mip, unassigned_ranks)
     IN /\ result' = g.route
        /\ unassigned_ranks' = g.unassigned_ranks
  /\ lp' = [lp EXCEPT !.prob = FALSE, !.env = FALSE]
  /\ vpc' = "returned"
  /\ UNCHANGED <<vin, status, mip, err>>
  /\ UNCHANGED <<lsvars, pvars, gvars, wvars, cvars>>

NextValidator ==
  VCreate \/ VSetCols \/ VSolve1 \/ VCheck1 \/ VSolve2 \/ VCheck2 \/ VGenerate

SpecValidator == InitValidator /\ [][NextValidator]_vars

\* ------------------------------------------------------------------------
\* Claims on or_opt.
\* ------------------------------------------------------------------------
\* The travel cost saved in the source route by removing the two jobs at
\* source_rank and source_rank + 1.
SourceSaving(in, s, o) ==
  RouteCost(in, o.source_vehicle, s[o.source_vehicle])
  - RouteCost(in, o.source_vehicle, VecErase(s[o.source_vehicle], o.source_rank, 2))
\* The cost of the edge between the two moved jobs.
InnerEdge(in, s, o) ==
  Matrix(in, JobIndex(At(s[o.source_vehicle], o.source_rank)),
         JobIndex(At(s[o.source_vehicle], o.source_rank + 1)))
\* Cost of the source and target routes before the move minus after apply.
MoveDelta(in, s, o) ==
  LET after == apply_sol(s, o)
      sv == o.source_vehicle
      tv == o.target_vehicle
  IN (RouteCost(in, sv, s[sv]) + RouteCost(in, tv, s[tv]))
     - (RouteCost(in, sv, after[sv]) + RouteCost(in, tv, after[tv]))

\* C1 as stated: with edge_gains[source_vehicle][source_rank] equal to the
\* whole travel cost saved in the source route by removing the two jobs,
\* the gain set by compute_gain is the exact cost delta of the move.
C1_GainExactWithWholeSaving ==
  gain_computed =>
    compute_gain(input, sol, op, SourceSaving(input, sol, op))
      = MoveDelta(input, sol, op)

\* C1 amended: with edge_gains[source_vehicle][source_rank] equal to the
\* travel cost saved in the source route by removing the two jobs less the
\* cost of the edge between them (that edge moves with the jobs), the gain
\* set by compute_gain is the exact cost delta of the move, in every branch.
C1_GainExact ==
  gain_computed =>
    compute_gain(input, sol, op,
                 SourceSaving(input, sol, op) - InnerEdge(input, sol, op))
      = MoveDelta(input, sol, op)

\* A gain was computed for a move to an empty route of a vehicle with no
\* start, the two moved jobs being a positive distance apart.
C1_Witness ==
  /\ gain_computed
  /\ Len(sol[op.target_vehicle]) = 0
  /\ ~has_start(input, op.target_vehicle)
  /\ has_end(input, op.target_vehicle)
  /\ InnerEdge(input, sol, op) > 0
  /\ stored_gain = MoveDelta(input, sol, op)

\* C4: moves applied only when is_valid accepted them keep the cached
\* amount of every vehicle componentwise within its capacity.
C4_AmountsWithinCapacity == CapacityOk(input, amounts)

\* A move was applied that fills the target vehicle to its capacity in one
\* component.
C4_Witness ==
  /\ base # NoBase
  /\ lspc = "idle"
  /\ amounts[base.op.target_vehicle][1] = Capacity(input, base.op.target_vehicle)[1]
  /\ amounts[base.op.target_vehicle] # base.amounts[base.op.target_vehicle]

\* C5: moves applied only when is_valid accepted them keep every job of
\* every route accepted by vehicle_ok_with_job for its vehicle.
C5_SkillsKept == SkillsOk(input, sol)

\* A job that needs a skill was moved to another vehicle having it.
C5_Witness ==
  /\ base # NoBase
  /\ lspc = "idle"
  /\ input.skilled
  /\ \E r \in {base.op.target_rank, base.op.target_rank + 1} :
       JobSkills(input, At(sol[base.op.target_vehicle], r)) # {}

\* C6: a move accepted by is_valid keeps every pickup in the route of its
\* delivery and before it.
C6_PairsKept == PairsOk(sol)

\* C7: apply moves exactly the two jobs at source_rank and source_rank + 1
\* to ranks target_rank and target_rank + 1 of the target route, in the
\* same order, keeps the order of all other jobs and all other routes;
\* no job is lost or duplicated.
C7_MovesExactlyThePair ==
  /\ \A j \in Jobs : Occurrences(sol, j) <= 1
  /\ base # NoBase => JobsOf(sol) = JobsOf(base.sol)
  /\ (base # NoBase /\ ~undone) =>
       LET o == base.op
           b == base.sol
           sv == o.source_vehicle
           tv == o.target_vehicle
       IN /\ Len(sol[tv]) = Len(b[tv]) + 2
          /\ Len(sol[sv]) = Len(b[sv]) - 2
          /\ At(sol[tv], o.target_rank) = At(b[sv], o.source_rank)
          /\ At(sol[tv], o.target_rank + 1) = At(b[sv], o.source_rank + 1)
          /\ \A r \in 0 .. (Len(b[tv]) - 1) :
               At(b[tv], r) = At(sol[tv], IF r < o.target_rank THEN r ELSE r + 2)
          /\ \A r \in 0 .. (Len(sol[sv]) - 1) :
               At(sol[sv], r) = At(b[sv], IF r < o.source_rank THEN r ELSE r + 2)
          /\ \A v \in Vehicles \ {sv, tv} : sol[v] = b[v]

\* A pair was moved behind the job of another route while a third route
\* holds a job.
C7_Witness ==
  /\ base # NoBase
  /\ ~undone
  /\ base.op.target_rank > 0
  /\ \E v \in Vehicles \ {base.op.source_vehicle, base.op.target_vehicle} :
       base.sol[v] # <<>> /\ sol[v] = base.sol[v]

\* A pair was moved strictly inside another route.
C7_WitnessInside ==
  /\ base # NoBase
  /\ ~undone
  /\ base.op.target_rank > 0
  /\ base.op.target_rank < Len(base.sol[base.op.target_vehicle])

\* C8: after any sequence of apply calls the cached amount of each vehicle
\* equals the sum of the amounts of the jobs of its route.
C8_NoDrift == amounts = FreshAmounts(sol)

\* An apply has changed the amounts of two vehicles.
C8_Witness ==
  /\ base # NoBase
  /\ amounts[base.op.source_vehicle] # base.amounts[base.op.source_vehicle]
  /\ amounts[base.op.target_vehicle] # base.amounts[base.op.target_vehicle]

\* C9: a move followed by its inverse restores every route and every
\* cached amount.
C9_RoundTrip ==
  undone => (sol = base.sol /\ amounts = base.amounts)

\* A move and its inverse were applied, the move being between two
\* non-empty routes.
C9_Witness ==
  /\ undone
  /\ Len(sol[base.op.target_vehicle]) > 0
  /\ Len(sol[base.op.source_vehicle]) > 2

\* ------------------------------------------------------------------------
\* choose_invalid_route: release of the solver, errors, violations.
\* ------------------------------------------------------------------------
\* C2: on every exit of choose_invalid_route, the return and each throw, the
\* GLPK problem has been deleted and the GLPK environment has been freed.
C2_SolverReleasedOnEveryExit ==
  vpc \in {"returned", "thrown"} => (~lp.prob /\ ~lp.env)

\* C3: once the status test of a round has seen GLP_UNDEF or GLP_NOFEAS, the
\* call has ended with an INPUT error naming the vehicle, and no Route is
\* returned.
C3_NoSolutionIsInputError ==
  (status \in {"GLP_UNDEF", "GLP_NOFEAS"} /\ vpc \notin {"solved_1", "solved_2"})
    => /\ vpc = "thrown"
       /\ err.kind = "INPUT"
       /\ err.vehicle = vin.id
       /\ result = NoRoute

\* The second round reported no solution and the call has ended.
C3_Witness ==
  /\ vpc = "thrown"
  /\ status \in {"GLP_UNDEF", "GLP_NOFEAS"}
  /\ lp.makespan_fx # Unset
  /\ err = infeasible_route(vin)

\* A schedule of the steps of vi without any time window violation: travel
\* and service times and forced service times respected, every task served
\* inside one of its time windows, the vehicle inside its own.
violation_free(vi, P, s) ==
  /\ vi.tw.start <= P.horizon_start + s.t[1]
  /\ P.horizon_start + s.t[P.n + 2] <= vi.tw.end
  /\ \A i \in 1 .. P.n :
       \E k \in 1 .. Len(StepTws(vi.steps[i + 1])) :
          LET tw == StepTws(vi.steps[i + 1])[k]
          IN tw.start <= P.horizon_start + s.t[i + 1]
             /\ P.horizon_start + s.t[i + 1] <= tw.end
admits_violation_free_schedule(vi) ==
  LET P == problem(vi)
  IN /\ \A i \in 1 .. Len(vi.steps) : P.t_i_LB[i] <= P.t_i_UB[i]
     /\ \E s \in schedules(vi, P) : violation_free(vi, P, s)

\* C10: when the steps admit a schedule without time window violation, the
\* Route returned has lead_time = 0 and delay = 0 and none of its steps
\* carries LEAD_TIME or DELAY, whatever the makespan estimate.
C10_NoViolationWhenNoneIsNeeded ==
  (vpc = "returned" /\ admits_violation_free_schedule(vin))
    => /\ result.violations.lead_time = 0
       /\ result.violations.delay = 0
       /\ \A i \in 1 .. Len(result.steps) :
            result.steps[i].violations.types \cap {"LEAD_TIME", "DELAY"} = {}


\* ------------------------------------------------------------------------
\* choose_invalid_route: the objective of the first round.
\* ------------------------------------------------------------------------
\* service_sum + travel_sum of the steps of vi.
M_m(vi) == first_scan(vi).service_sum + first_scan(vi).duration_sum

\* C11 as stated: the columns left by the first round minimise
\* (vehicle end - vehicle start) * M_m + sum of Y_i, with
\* M_m = service_sum + travel_sum.
C11_MakespanWeighted ==
  (vpc = "solved_1" /\ status = "GLP_OPT")
    => \A s \in feasible(vin, problem(vin)) :
         M_m(vin) * makespan(problem(vin), mip) + SumSeq(mip.y)
           <= M_m(vin) * makespan(problem(vin), s) + SumSeq(s.y)

\* C11 amended: the columns left by the first round minimise
\* makespan_estimate * sum of Y_i + (vehicle end - vehicle start): every Y_i
\* carries the weight makespan_estimate and the makespan the weight 1, where
\* makespan_estimate is service_sum + travel_sum or, when that sum is 0 and
\* the input has a time window, horizon_end - horizon_start.
C11_ViolationsWeighted ==
  (vpc = "solved_1" /\ status = "GLP_OPT")
    => LET P == problem(vin)
           w == IF M_m(vin) = 0 /\ first_scan(vin).horizon_start # DurationMax
                THEN first_scan(vin).horizon_end - first_scan(vin).horizon_start
                ELSE M_m(vin)
       IN \A s \in feasible(vin, P) :
            w * SumSeq(mip.y) + (mip.t[P.n + 2] - mip.t[1])
              <= w * SumSeq(s.y) + (s.t[P.n + 2] - s.t[1])

\* The first round ended at an optimum with a violation and a positive
\* makespan, for steps whose services and travels sum to more than 1.
C11_Witness ==
  /\ vpc = "solved_1"
  /\ status = "GLP_OPT"
  /\ SumSeq(mip.y) > 0
  /\ M_m(vin) > 1
  /\ makespan(problem(vin), mip) > 0

\* ------------------------------------------------------------------------
\* choose_invalid_route: a route too long for the time window of the vehicle.
\* ------------------------------------------------------------------------
\* vi has a start, an end and a time window of its own, its steps are two
\* jobs, and their services and travels sum to more than the length of the
\* time window.
two_jobs_exceed_window(vi) ==
  /\ vi.has_start
  /\ vi.has_end
  /\ ~is_default(vi.tw)
  /\ Len(vi.steps) = 4
  /\ vi.steps[2].type = "job"
  /\ vi.steps[3].type = "job"
  /\ M_m(vi) > vi.tw.end - vi.tw.start

\* C12: for such a call the Route returned has a total delay > 0 and its end
\* step carries DELAY with delay = end time - end of the vehicle time window.
C12_EndStepDelayed ==
  (vpc = "returned" /\ two_jobs_exceed_window(vin))
    => LET last == result.steps[Len(result.steps)]
       IN /\ result.violations.delay > 0
          /\ last.step_type = "end"
          /\ "DELAY" \in last.violations.types
          /\ last.violations.delay
               = last.arrival + last.waiting_time - vin.tw.end

\* ------------------------------------------------------------------------
\* C13: the running load and the LOAD flags of the returned route.
\* ------------------------------------------------------------------------
\* The load after the first k steps of the sequence: the deliveries of the
\* single jobs, plus pickup minus delivery of every job among those steps.
RECURSIVE load_prefix(_, _)
load_prefix(vi, k) ==
  IF k = 0 THEN startup_load(vi, 1)
  ELSE load_prefix(vi, k - 1)
       + (IF vi.steps[k].type = "job"
          THEN VJobCatalog[vi.steps[k].rank + 1].pickup
               - VJobCatalog[vi.steps[k].rank + 1].delivery
          ELSE 0)

\* The place in the route's steps of step k of the sequence (k = 1 is the
\* start, emitted only for a vehicle with a start).
emitted(vi, k) == IF vi.has_start THEN k ELSE k - 1

\* The steps of the sequence at which the load is exceeded: 0 stands for
\* startup, k for the job at step k.
exceeded_at(vi) ==
  {k \in 0 .. Len(vi.steps) :
     /\ k = 0 \/ vi.steps[k].type = "job"
     /\ ~(load_prefix(vi, k) <= vi.capacity)}

\* C13: in the returned route every job step carries the running load, the
\* start step carries the startup load; when the load is exceeded at
\* startup or after a job the route's violations contain LOAD and the step
\* where it is exceeded (the first emitted step at startup) is flagged LOAD;
\* when the load is never exceeded no step is flagged LOAD.
C13_LoadFlags ==
  vpc = "returned"
    => /\ \A k \in 1 .. Len(vin.steps) :
            (vin.steps[k].type = "job" \/ (k = 1 /\ vin.has_start))
              => result.steps[emitted(vin, k)].load = load_prefix(vin, k)
       /\ \A k \in exceeded_at(vin) :
            /\ "LOAD" \in result.violations.types
            /\ "LOAD" \in result.steps[IF k = 0 THEN 1
                                       ELSE emitted(vin, k)].violations.types
       /\ exceeded_at(vin) = {}
            => \A i \in 1 .. Len(result.steps) :
                 "LOAD" \notin result.steps[i].violations.types

\* A vehicle without start is over capacity at startup and the first step of
\* its route, a job, is flagged LOAD.
C13_Witness ==
  /\ vpc = "returned"
  /\ ~vin.has_start
  /\ 0 \in exceeded_at(vin)
  /\ result.steps[1].step_type = "job"
  /\ "LOAD" \in result.steps[1].violations.types

\* The load is exceeded after a job and not at startup.
C13_WitnessAfterJob ==
  /\ vpc = "returned"
  /\ exceeded_at(vin) # {}
  /\ 0 \notin exceeded_at(vin)

\* ------------------------------------------------------------------------
\* C14: precedence violations of the returned route.
\* ------------------------------------------------------------------------
\* The step of the sequence holding job rank r, 0 when there is none.
step_of(vi, r) ==
  IF \E k \in 1 .. Len(vi.steps) :
       vi.steps[k].type = "job" /\ vi.steps[k].rank = r
  THEN CHOOSE k \in 1 .. Len(vi.steps) :
         vi.steps[k].type = "job" /\ vi.steps[k].rank = r
  ELSE 0

\* The steps of the sequence that break the precedence of a pair: a delivery
\* (rank d) whose pickup (rank d - 1) does not stand before it, the pickup of
\* such a delivery when it stands after it, and a pickup (rank p) whose
\* delivery (rank p + 1) is not in the sequence.
precedence_breakers(vi) ==
  {k \in 1 .. Len(vi.steps) :
     /\ vi.steps[k].type = "job"
     /\ \/ /\ vi.steps[k].job_type = "delivery"
           /\ LET p == step_of(vi, vi.steps[k].rank - 1)
              IN p = 0 \/ p > k
        \/ /\ vi.steps[k].job_type = "pickup"
           /\ LET d == step_of(vi, vi.steps[k].rank + 1)
              IN d = 0 \/ d < k}

\* C14: the violation set of the returned route contains PRECEDENCE if and
\* only if some delivery is not preceded by its pickup or some pickup is not
\* followed by its delivery, and the steps flagged PRECEDENCE are exactly
\* the delivery placed first, its pickup when it comes later, and each
\* pickup with no delivery in the route.
C14_PrecedenceFlags ==
  vpc = "returned"
    => /\ ("PRECEDENCE" \in result.violations.types)
            <=> (precedence_breakers(vin) # {})
       /\ \A k \in 2 .. Len(vin.steps) - 1 :
            ("PRECEDENCE" \in result.steps[emitted(vin, k)].violations.types)
              <=> (k \in precedence_breakers(vin))

\* A pickup whose delivery is not in the route is flagged, after a single
\* job that is not.
C14_Witness ==
  /\ vpc = "returned"
  /\ Len(vin.steps) = 4
  /\ vin.steps[2].job_type = "single" /\ vin.steps[2].type = "job"
  /\ vin.steps[3].job_type = "pickup"
  /\ "PRECEDENCE" \in result.steps[emitted(vin, 3)].violations.types
  /\ "PRECEDENCE" \notin result.steps[emitted(vin, 2)].violations.types

\* A delivery placed before its pickup: both steps are flagged.
C14_WitnessDeliveryFirst ==
  /\ vpc = "returned"
  /\ Len(vin.steps) = 4
  /\ vin.steps[2].job_type = "delivery" /\ vin.steps[3].job_type = "pickup"
  /\ "PRECEDENCE" \in result.steps[emitted(vin, 2)].violations.types
  /\ "PRECEDENCE" \in result.steps[emitted(vin, 3)].violations.types

\* A pickup followed by its delivery: no precedence violation.
C14_WitnessInOrder ==
  /\ vpc = "returned"
  /\ Len(vin.steps) = 4
  /\ vin.steps[2].job_type = "pickup" /\ vin.steps[3].job_type = "delivery"
  /\ "PRECEDENCE" \notin result.violations.types

C15_WitnessChoice ==
  /\ vpc = "returned"
  /\ \E i \in 1 .. Len(vin.steps) - 2 :
       /\ problem(vin).first_relevant_tw_rank[i] = 0
       /\ output(problem(vin), mip).task_tw_ranks[i] = 1

\* ------------------------------------------------------------------------
\* parse (src/unnamed/part_003): JSON values as rapidjson sees them.
\* ------------------------------------------------------------------------
\* A value has a kind; a number has a value v, an array has items, an
\* object has members (a function from its keys).
JValue(kind, v, items, members) ==
  [kind |-> kind, v |-> v, items |-> items, members |-> members]
JUint(v) == JValue("uint", v, <<>>, <<>>)
\* A negative integer.
JInt(v) == JValue("int", v, <<>>, <<>>)
\* The number 1.5.
JDouble == JValue("double", 0, <<>>, <<>>)
JString == JValue("string", 0, <<>>, <<>>)
JArray(items) == JValue("array", 0, items, <<>>)
\* An object from a set of <<key, value>> pairs with distinct keys.
JObject(pairs) ==
  JValue("object", 0, <<>>,
         [k \in {q[1] : q \in pairs} |-> (CHOOSE q \in pairs : q[1] = k)[2]])

HasMember(o, key) == key \in DOMAIN o.members
Member(o, key) == o.members[key]
IsArray(x) == x.kind = "array"
IsObject(x) == x.kind = "object"
IsNumber(x) == x.kind \in {"uint", "int", "double"}
Size(x) == Len(x.items)
Empty(x) == Len(x.items) = 0

\* GetUint on a value that is not an unsigned integer fails
\* RAPIDJSON_ASSERT; a build without assertions reads the low 32 bits of the
\* stored number. A distance is held as wraps * 2^32 + units, which keeps
\* 2^32 - 1 within the integers of the model.
IsUint(x) == x.kind = "uint"
GetUint(x) ==
  IF x.kind = "int" THEN [wraps |-> 1, units |-> x.v]
  ELSE [wraps |-> 0, units |-> x.v]

\* matrix<T>::get_sub_matrix: the rows and columns at the given indices, in
\* the given order.
get_sub_matrix(matrix, indices) ==
  [a \in 1 .. Len(indices) |->
     [b \in 1 .. Len(indices) |-> matrix[indices[a] + 1][indices[b] + 1]]]

\* ------------------------------------------------------------------------
\* parse: the steps of the function.
\* ------------------------------------------------------------------------
\* json_input.Parse(...).HasParseError()
HasParseError(doc) == doc.kind = "malformed"

\* The required checks with the vehicles looked at first.
check_required_VehiclesFirst(doc) ==
  IF \/ ~HasMember(doc, "vehicles")
     \/ ~IsArray(Member(doc, "vehicles"))
     \/ Empty(Member(doc, "vehicles"))
  THEN "Incorrect vehicles input."
  ELSE IF ~HasMember(doc, "jobs") \/ ~IsArray(Member(doc, "jobs"))
  THEN "Incorrect jobs input."
  ELSE IF ~IsObject(Member(doc, "vehicles").items[1])
  THEN "Ill-formed vehicle object."
  ELSE IF ~HasMember(Member(doc, "vehicles").items[1], "id")
  THEN "Missing mandatory vehicle id."
  ELSE IF Size(Member(doc, "vehicles")) > 1
  THEN "Multiple vehicles are not supported (yet)."
  ELSE ""

\* "Checks required in any case": the text thrown, "" when all pass.
check_required(doc) ==
  IF ~HasMember(doc, "jobs") \/ ~IsArray(Member(doc, "jobs"))
  THEN "Incorrect jobs input."
  ELSE IF \/ ~HasMember(doc, "vehicles")
          \/ ~IsArray(Member(doc, "vehicles"))
          \/ Empty(Member(doc, "vehicles"))
  THEN "Incorrect vehicles input."
  ELSE IF ~IsObject(Member(doc, "vehicles").items[1])
  THEN "Ill-formed vehicle object."
  ELSE IF ~HasMember(Member(doc, "vehicles").items[1], "id")
  THEN "Missing mandatory vehicle id."
  ELSE IF Size(Member(doc, "vehicles")) > 1
  THEN "Multiple vehicles are not supported (yet)."
  ELSE ""

\* What the loop over row i of the matrix throws, "" when it runs through.
row_error(matrix, i) ==
  LET line == matrix.items[i]
  IN IF Size(line) # Size(matrix) THEN "Input matrix is not square."
     ELSE IF \E j \in 1 .. Size(line) : ~IsNumber(line.items[j])
     THEN "Input matrix has a non-number entry."
     ELSE ""

\* The entries GetUint is called on in row i before the loop leaves it.
row_reads(matrix, i) ==
  LET line == matrix.items[i]
  IN IF Size(line) # Size(matrix) THEN {}
     ELSE {j \in 1 .. Size(line) :
             \A l \in 1 .. j : IsNumber(line.items[l])}

\* "Load custom matrix while checking if it is square": every way the loop
\* can end. A number that is not an unsigned integer makes GetUint fail its
\* assertion or, without assertions, be read as GetUint gives it.
load_matrix(matrix) ==
  LET n == Size(matrix)
      bad == {i \in 1 .. n : row_error(matrix, i) # ""}
      first == IF bad = {} THEN n + 1
               ELSE CHOOSE i \in bad : \A l \in bad : i <= l
      asserts == \E i \in 1 .. Min2(first, n) :
                   \E j \in row_reads(matrix, i) :
                     ~IsUint(matrix.items[i].items[j])
      ends == IF bad # {}
              THEN [kind |-> "thrown", text |-> row_error(matrix, first),
                    matrix_input |-> <<>>]
              ELSE [kind |-> "loaded", text |-> "",
                    matrix_input |->
                      [i \in 1 .. n |->
                         [j \in 1 .. n |->
                            GetUint(matrix.items[i].items[j])]]]
  IN {ends} \cup (IF asserts
                  THEN {[kind |-> "aborted", text |-> "",
                         matrix_input |-> <<>>]}
                  ELSE {})

\* parse_coordinates: "invalid" when it throws, else whether coordinates
\* are returned.
parse_coordinates(object, key) ==
  IF HasMember(object, key) /\ IsArray(Member(object, key))
  THEN IF Size(Member(object, key)) < 2 THEN "invalid" ELSE "coords"
  ELSE "none"

\* The absent boost::optional<index_t>.
None == 0 - 1

\* "Check if vehicle has start_index or end_index" for one of the two keys:
\* the text thrown or the index read, None when the key is absent.
read_index(vehicle, key, matrix_size) ==
  IF ~HasMember(vehicle, key) THEN [text |-> "", index |-> None]
  ELSE IF ~IsNumber(Member(vehicle, key))
  THEN [text |-> "Vehicle " \o key \o " is not a number.", index |-> None]
  ELSE IF matrix_size <= GetUint(Member(vehicle, key)).units
  THEN [text |-> "Vehicle " \o key \o " does not match to matrix size.",
        index |-> None]
  ELSE [text |-> "", index |-> GetUint(Member(vehicle, key)).units]

\* input::add_vehicle and input::add_job: the vehicle or job is stored with
\* the index given, and every index given counts for one location.
add_vehicle(data, id, start, end, start_index, end_index) ==
  [data EXCEPT
     !.vehicles = Append(@, [id |-> id, start |-> start, end |-> end,
                             start_index |-> start_index,
                             end_index |-> end_index]),
     !.location_number = @ + (IF start_index # None THEN 1 ELSE 0)
                           + (IF end_index # None THEN 1 ELSE 0)]
add_job(data, id, location, index) ==
  [data EXCEPT
     !.jobs = Append(@, [id |-> id, location |-> location, index |-> index]),
     !.location_number = @ + 1]
get_location_number(data) == data.location_number

\* push_back that leaves out an index already in the list.
push_back_Unique(indices, index) ==
  IF \E k \in 1 .. Len(indices) : indices[k] = index THEN indices
  ELSE Append(indices, index)

\* necessary_indices.push_back(index)
push_back(indices, index) == Append(indices, index)

\* Lines 102-140: the vehicle's indices, then add_vehicle.
vehicle_step(doc, locals, data) ==
  LET vehicle == Member(doc, "vehicles").items[1]
      matrix_size == Size(Member(doc, "matrix"))
      s == read_index(vehicle, "start_index", matrix_size)
      e == read_index(vehicle, "end_index", matrix_size)
      start_index == IF s.index # None THEN 0 ELSE None
      end_index == IF e.index = None THEN None
                   ELSE IF s.index # None THEN 1 ELSE 0
      with_start == IF s.index # None THEN push_back(<<>>, s.index)
                    ELSE <<>>
      necessary_indices ==
        IF e.index # None THEN push_back(with_start, e.index)
        ELSE with_start
      start == parse_coordinates(vehicle, "start")
      end == parse_coordinates(vehicle, "end")
  IN IF s.text # "" THEN [text |-> s.text, locals |-> locals, data |-> data]
     ELSE IF e.text # ""
     THEN [text |-> e.text, locals |-> locals, data |-> data]
     ELSE IF start = "invalid" \/ end = "invalid"
     THEN [text |-> "Invalid coordinates array size.", locals |-> locals,
           data |-> data]
     ELSE [text |-> "",
           locals |-> [locals EXCEPT
                         !.necessary_indices = necessary_indices,
                         !.index_counter =
                            (IF s.index # None THEN 1 ELSE 0)
                            + (IF e.index # None THEN 1 ELSE 0)],
           data |-> add_vehicle(data, GetUint(Member(vehicle, "id")).units,
                                start, end, start_index, end_index)]

\* What the checks on one job of a document with a matrix throw.
job_error(job, matrix_size) ==
  IF ~IsObject(job) THEN "Ill-formed job object."
  ELSE IF ~HasMember(job, "id") THEN "Missing mandatory job id."
  ELSE IF ~IsNumber(Member(job, "id")) THEN "Job id is not a number."
  ELSE IF ~HasMember(job, "location_index")
  THEN "Missing mandatory job location_index."
  ELSE IF ~IsNumber(Member(job, "location_index"))
  THEN "Job location_index is not a number."
  ELSE IF matrix_size <= GetUint(Member(job, "location_index")).units
  THEN "Job location_index does not match to matrix size."
  ELSE IF parse_coordinates(job, "location") = "invalid"
  THEN "Invalid coordinates array size."
  ELSE ""

\* "Add the jobs", from job i on, then get_sub_matrix.
RECURSIVE jobs_step(_, _, _, _)
jobs_step(doc, locals, data, i) ==
  LET jobs == Member(doc, "jobs")
  IN IF i > Size(jobs)
     THEN [text |-> "", locals |-> locals,
           data |-> [data EXCEPT
                       !.matrix = get_sub_matrix(locals.matrix_input,
                                                 locals.necessary_indices)]]
     ELSE LET job == jobs.items[i]
              text == job_error(job, Size(Member(doc, "matrix")))
          IN IF text # ""
             THEN [text |-> text, locals |-> locals, data |-> data]
             ELSE jobs_step(
                    doc,
                    [locals EXCEPT
                       !.necessary_indices =
                          push_back(@, GetUint(Member(job, "location_index")).units),
                       !.index_counter = @ + 1],
                    add_job(data, GetUint(Member(job, "id")).units,
                            parse_coordinates(job, "location"),
                            locals.index_counter),
                    i + 1)

\* What the checks on one job of a document without matrix throw.
osrm_job_error(job) ==
  IF ~IsObject(job) THEN "Ill-formed job object."
  ELSE IF ~HasMember(job, "location") THEN "Missing mandatory job location."
  ELSE IF ~HasMember(job, "id") THEN "Missing mandatory job id."
  ELSE IF parse_coordinates(job, "location") = "invalid"
  THEN "Invalid coordinates array size."
  ELSE ""

\* "Getting jobs" of a document without matrix, from job i on: every
\* location takes the current number of locations as its index.
RECURSIVE osrm_jobs_step(_, _, _)
osrm_jobs_step(doc, data, i) ==
  LET jobs == Member(doc, "jobs")
  IN IF i > Size(jobs) THEN [text |-> "", data |-> data]
     ELSE IF osrm_job_error(jobs.items[i]) # ""
     THEN [text |-> osrm_job_error(jobs.items[i]), data |-> data]
     ELSE osrm_jobs_step(
            doc,
            add_job(data, GetUint(Member(jobs.items[i], "id")).units,
                    parse_coordinates(jobs.items[i], "location"),
                    data.location_number),
            i + 1)

\* The else branch of "Switch input type": add_vehicle, then the jobs.
osrm_step(doc, data) ==
  LET vehicle == Member(doc, "vehicles").items[1]
      start == parse_coordinates(vehicle, "start")
      end == parse_coordinates(vehicle, "end")
      start_index == IF start = "coords" THEN 0 ELSE None
      end_index == IF end # "coords" THEN None
                   ELSE IF start = "coords" THEN 1 ELSE 0
  IN IF start = "invalid" \/ end = "invalid"
     THEN [text |-> "Invalid coordinates array size.", data |-> data]
     ELSE osrm_jobs_step(
            doc,
            add_vehicle(data, GetUint(Member(vehicle, "id")).units,
                        start, end, start_index, end_index),
            1)

\* ------------------------------------------------------------------------
\* parse: the documents explored. Ids and indices are unsigned integers or
\* strings; a matrix is an array of arrays.
\* ------------------------------------------------------------------------
\* A key left out of an object.
Absent == JValue("absent", 0, <<>>, <<>>)
Object(pairs) == JObject({q \in pairs : q[2] # Absent})
Coordinates == JArray(<<JUint(2), JUint(48)>>)
Malformed == JValue("malformed", 0, <<>>, <<>>)

\* Arrays of at most k items taken from a set of values.
RECURSIVE ArraysOf(_, _)
ArraysOf(values, k) ==
  IF k = 0 THEN {JArray(<<>>)}
  ELSE ArraysOf(values, k - 1)
       \cup {JArray(Append(a.items, x)) :
               a \in {b \in ArraysOf(values, k - 1) : Size(b) = k - 1},
               x \in values}

\* The n x n matrix whose entries are all different.
BaseMatrix(n) ==
  JArray([i \in 1 .. n |->
            JArray([j \in 1 .. n |-> JUint((i - 1) * n + j)])])
WithCell(matrix, i, j, x) ==
  [matrix EXCEPT !.items[i].items[j] = x]
ShortRow(matrix, i) ==
  [matrix EXCEPT !.items[i].items = SubSeq(@, 1, Len(@) - 1)]
LongRow(matrix, i) ==
  [matrix EXCEPT !.items[i].items = Append(@, JUint(0))]
\* One entry negative, fractional or not a number, or one row too short or
\* too long.
DefectMatrices(n) ==
  {WithCell(BaseMatrix(n), i, j, x) :
     i \in 1 .. n, j \in 1 .. n, x \in {JInt(0 - 1), JDouble, JString}}
  \cup {ShortRow(BaseMatrix(n), i) : i \in 1 .. n}
  \cup {LongRow(BaseMatrix(n), i) : i \in 1 .. n}

Vehicle(id, start_index, end_index, start, end) ==
  Object({<<"id", id>>, <<"start_index", start_index>>,
          <<"end_index", end_index>>, <<"start", start>>, <<"end", end>>})
Job(id, location_index, location) ==
  Object({<<"id", id>>, <<"location_index", location_index>>,
          <<"location", location>>})
Document(jobs, vehicles, matrix) ==
  Object({<<"jobs", jobs>>, <<"vehicles", vehicles>>, <<"matrix", matrix>>})

\* The mandatory keys absent, of the wrong kind, or arrays of up to
\* MaxDocVehicles vehicles.
TopLevelDocuments(max_vehicles) ==
  {Malformed}
  \cup {Document(jobs, vehicles, matrix) :
          jobs \in {Absent, JString, JArray(<<>>),
                    JArray(<<Job(JUint(5), JUint(0), Coordinates)>>)},
          vehicles \in {Absent, JString}
                       \cup ArraysOf({Vehicle(JUint(1), JUint(0), JUint(1),
                                              Coordinates, Coordinates),
                                      Vehicle(Absent, JUint(0), JUint(1),
                                              Coordinates, Coordinates),
                                      JString},
                                     max_vehicles),
          matrix \in {Absent, BaseMatrix(2)}}

\* A sound vehicle and sound jobs with any matrix.
MatrixDocuments(max_jobs, max_size) ==
  UNION {{Document(jobs, JArray(<<Vehicle(JUint(1), JUint(0), JUint(0),
                                          Absent, Absent)>>), matrix) :
            jobs \in {a \in ArraysOf({Job(JUint(5), JUint(n - 1), Absent)},
                                     max_jobs) : Size(a) >= 1},
            matrix \in DefectMatrices(n) \cup {BaseMatrix(n)}} :
         n \in 1 .. max_size}

\* A sound matrix with any indices for the vehicle and jobs at any location
\* of the matrix.
IndexDocuments(max_jobs, max_size) ==
  UNION {{Document(jobs, JArray(<<Vehicle(JUint(1), start_index, end_index,
                                          Absent, Absent)>>),
                   BaseMatrix(n)) :
            jobs \in ArraysOf({Job(JUint(5), JUint(l), Absent) :
                                 l \in 0 .. n - 1}, max_jobs),
            start_index \in {Absent, JString} \cup {JUint(l) : l \in 0 .. n},
            end_index \in {Absent, JString} \cup {JUint(l) : l \in 0 .. n}} :
         n \in 1 .. max_size}

\* A sound matrix and vehicle with jobs of every kind.
JobDocuments(max_jobs) ==
  {Document(jobs, JArray(<<Vehicle(JUint(1), JUint(0), Absent,
                                   Absent, Absent)>>), BaseMatrix(2)) :
     jobs \in ArraysOf({Job(JUint(5), JUint(0), Coordinates),
                        Job(JUint(5), JUint(2), Absent),
                        JString,
                        Job(Absent, JUint(0), Absent),
                        Job(JString, JUint(0), Absent),
                        Job(JUint(5), Absent, Absent),
                        Job(JUint(5), JString, Absent)}, max_jobs)}

\* No matrix: locations are coordinates.
OsrmDocuments(max_jobs) ==
  {Document(jobs, JArray(<<Vehicle(JUint(1), Absent, Absent, start, end)>>),
            Absent) :
     jobs \in ArraysOf({Job(JUint(5), Absent, Coordinates),
                        JString,
                        Job(JUint(5), Absent, Absent),
                        Job(Absent, Absent, Coordinates)}, max_jobs),
     start \in {Absent, Coordinates},
     end \in {Absent, Coordinates}}

Documents(max_jobs, max_vehicles, max_size) ==
  TopLevelDocuments(max_vehicles) \cup MatrixDocuments(max_jobs, max_size)
  \cup IndexDocuments(max_jobs, max_size) \cup JobDocuments(max_jobs)
  \cup OsrmDocuments(max_jobs)

\* ------------------------------------------------------------------------
\* parse: the function, one action per stage.
\* ------------------------------------------------------------------------
InitParse ==
  /\ LocalSearchIdle
  /\ ValidatorIdle
  /\ GetMatrixIdle
  /\ WorkersIdle
  /\ CvrpIdle
  /\ json_input \in Documents(MaxDocJobs, MaxDocVehicles, MaxMatrixSize)
  /\ ppc = "entry"
  /\ pl = NoLocals
  /\ input_data = NoInputData
  /\ thrown = ""

\* A custom_exception leaves parse: nothing is returned.
throw(text) ==
  /\ ppc' = "thrown"
  /\ thrown' = text
  /\ pl' = NoLocals
  /\ input_data' = NoInputData
  /\ UNCHANGED json_input

\* json_input.Parse(cl_args.input.c_str())
PParse ==
  /\ ppc = "entry"
  /\ IF HasParseError(json_input)
     THEN throw("parse error")
     ELSE /\ ppc' = "parsed"
          /\ UNCHANGED <<json_input, pl, input_data, thrown>>
  /\ UNCHANGED <<lsvars, vvars, gvars, wvars, cvars>>

\* Checks required in any case.
PCheckRequired ==
  /\ ppc = "parsed"
  /\ IF check_required(json_input) # ""
     THEN throw(check_required(json_input))
     ELSE /\ ppc' = "checked"
          /\ UNCHANGED <<json_input, pl, input_data, thrown>>
  /\ UNCHANGED <<lsvars, vvars, gvars, wvars, cvars>>

\* Load custom matrix while checking if it is square.
PLoadMatrix ==
  /\ ppc = "checked"
  /\ HasMember(json_input, "matrix")
  /\ \E end \in load_matrix(Member(json_input, "matrix")) :
       CASE end.kind = "thrown" -> throw(end.text)
         [] end.kind = "aborted" ->
              /\ ppc' = "aborted"
              /\ pl' = NoLocals
              /\ input_data' = NoInputData
              /\ UNCHANGED <<json_input, thrown>>
         [] OTHER ->
              /\ ppc' = "matrix_loaded"
              /\ pl' = [pl EXCEPT !.matrix_input = end.matrix_input]
              /\ UNCHANGED <<json_input, input_data, thrown>>
  /\ UNCHANGED <<lsvars, vvars, gvars, wvars, cvars>>

\* The vehicle's start_index and end_index, add_vehicle.
PAddVehicle ==
  /\ ppc = "matrix_loaded"
  /\ LET r == vehicle_step(json_input, pl, input_data)
     IN IF r.text # "" THEN throw(r.text)
        ELSE /\ ppc' = "vehicle_added"
             /\ pl' = r.locals
             /\ input_data' = r.data
             /\ UNCHANGED <<json_input, thrown>>
  /\ UNCHANGED <<lsvars, vvars, gvars, wvars, cvars>>

\* Add the jobs, extract the necessary columns and rows.
PAddJobs ==
  /\ ppc = "vehicle_added"
  /\ LET r == jobs_step(json_input, pl, input_data, 1)
     IN IF r.text # "" THEN throw(r.text)
        ELSE /\ ppc' = "jobs_added"
             /\ pl' = r.locals
             /\ input_data' = r.data
             /\ UNCHANGED <<json_input, thrown>>
  /\ UNCHANGED <<lsvars, vvars, gvars, wvars, cvars>>

\* No matrix in the document: add_vehicle and "Getting jobs".
PUseOsrm ==
  /\ ppc = "checked"
  /\ ~HasMember(json_input, "matrix")
  /\ LET r == osrm_step(json_input, input_data)
     IN IF r.text # "" THEN throw(r.text)
        ELSE /\ ppc' = "jobs_added"
             /\ input_data' = r.data
             /\ UNCHANGED <<json_input, pl, thrown>>
  /\ UNCHANGED <<lsvars, vvars, gvars, wvars, cvars>>

\* "At least two locations required!", else return input_data.
PReturn ==
  /\ ppc = "jobs_added"
  /\ IF get_location_number(input_data) <= 1
     THEN throw("At least two locations required!")
     ELSE /\ ppc' = "returned"
          /\ UNCHANGED <<json_input, pl, input_data, thrown>>
  /\ UNCHANGED <<lsvars, vvars, gvars, wvars, cvars>>

NextParse ==
  PParse \/ PCheckRequired \/ PLoadMatrix \/ PAddVehicle \/ PAddJobs
  \/ PUseOsrm \/ PReturn

SpecParse == InitParse /\ [][NextParse]_vars

\* ------------------------------------------------------------------------
\* C16 - C19: parse.
\* ------------------------------------------------------------------------
\* The document is well-formed JSON and parse is past the required checks
\* or has thrown.
checks_done == json_input # Malformed /\ ppc \notin {"entry", "parsed"}
jobs_missing ==
  \/ "jobs" \notin DOMAIN json_input.members
  \/ json_input.members["jobs"].kind # "array"
vehicles_missing ==
  \/ "vehicles" \notin DOMAIN json_input.members
  \/ json_input.members["vehicles"].kind # "array"
  \/ Len(json_input.members["vehicles"].items) = 0

\* C16: a document without a jobs array, or without a non-empty vehicles
\* array, makes parse throw and return no input; the jobs are checked first,
\* so a document lacking both is reported for its jobs.
C16_MandatoryKeys ==
  checks_done
    => /\ jobs_missing
            => /\ ppc = "thrown"
               /\ thrown = "Incorrect jobs input."
               /\ input_data = NoInputData
       /\ (~jobs_missing /\ vehicles_missing)
            => /\ ppc = "thrown"
               /\ thrown = "Incorrect vehicles input."
               /\ input_data = NoInputData

\* A document lacking both keys is reported for its jobs.
C16_Witness ==
  /\ ppc = "thrown"
  /\ json_input # Malformed
  /\ jobs_missing
  /\ vehicles_missing
  /\ thrown = "Incorrect jobs input."

\* Two or more vehicles, each an object with an id.
several_vehicles ==
  /\ json_input # Malformed
  /\ ~vehicles_missing
  /\ Len(json_input.members["vehicles"].items) >= 2
  /\ \A k \in 1 .. Len(json_input.members["vehicles"].items) :
       LET vehicle == json_input.members["vehicles"].items[k]
       IN vehicle.kind = "object" /\ "id" \in DOMAIN vehicle.members

\* C17: a document with two or more well-formed vehicles is not rejected
\* because of the number of vehicles.
C17_SeveralVehiclesAccepted ==
  (several_vehicles /\ ppc = "thrown")
    => thrown # "Multiple vehicles are not supported (yet)."

\* The supplied matrix is square and holds only non-negative integers.
matrix_well_formed ==
  LET matrix == json_input.members["matrix"]
  IN \A i \in 1 .. Len(matrix.items) :
       /\ Len(matrix.items[i].items) = Len(matrix.items)
       /\ \A j \in 1 .. Len(matrix.items[i].items) :
            matrix.items[i].items[j].kind = "uint"

\* C18: every matrix parse accepts is square with only non-negative integer
\* entries.
C18_AcceptedMatrixWellFormed ==
  (ppc = "returned" /\ "matrix" \in DOMAIN json_input.members)
    => matrix_well_formed

\* The original indices of the locations of the document, in the order
\* vehicle start (if given), vehicle end (if given), jobs.
original_indices ==
  LET vehicle == json_input.members["vehicles"].items[1]
      jobs == json_input.members["jobs"].items
  IN (IF "start_index" \in DOMAIN vehicle.members
      THEN <<vehicle.members["start_index"].v>> ELSE <<>>)
     \o (IF "end_index" \in DOMAIN vehicle.members
         THEN <<vehicle.members["end_index"].v>> ELSE <<>>)
     \o [k \in 1 .. Len(jobs) |-> jobs[k].members["location_index"].v]

\* The new indices parse gave the locations, in the same order.
new_indices ==
  LET vehicle == input_data.vehicles[1]
  IN (IF vehicle.start_index # None THEN <<vehicle.start_index>> ELSE <<>>)
     \o (IF vehicle.end_index # None THEN <<vehicle.end_index>> ELSE <<>>)
     \o [k \in 1 .. Len(input_data.jobs) |-> input_data.jobs[k].index]

\* C19: when parse returns an input built from a supplied matrix of
\* non-negative integers, the locations are numbered 0, 1, 2, ... in the
\* order vehicle start, vehicle end, jobs, and the stored matrix holds at
\* the new indices of two locations the supplied entry at their original
\* indices, also when locations share an original index.
C19_Renumbering ==
  (ppc = "returned" /\ "matrix" \in DOMAIN json_input.members
   /\ matrix_well_formed)
    => LET supplied == json_input.members["matrix"]
           n == Len(original_indices)
       IN /\ new_indices = [k \in 1 .. n |-> k - 1]
          /\ Len(input_data.matrix) = n
          /\ \A a \in 1 .. n :
               /\ Len(input_data.matrix[a]) = n
               /\ \A b \in 1 .. n :
                    input_data.matrix[new_indices[a] + 1][new_indices[b] + 1]
                      = [wraps |-> 0,
                         units |-> supplied.items[original_indices[a] + 1]
                                     .items[original_indices[b] + 1].v]

\* The start, the end and a job share one original index, another job is
\* elsewhere.
C19_Witness ==
  /\ ppc = "returned"
  /\ "matrix" \in DOMAIN json_input.members
  /\ matrix_well_formed
  /\ Len(original_indices) = 4
  /\ original_indices[1] = original_indices[2]
  /\ original_indices[3] = original_indices[1]
  /\ original_indices[4] # original_indices[1]

\* ------------------------------------------------------------------------
\* osrm_wrapper::get_matrix (or_opt.cpp, lines 303-387).
\* ------------------------------------------------------------------------
\* An entry of the table: null, or a duration held as twice its value so
\* that halves are integers.
Null == [null |-> TRUE, twice |-> 0]
Duration(twice) == [null |-> FALSE, twice |-> twice]
IsNull(x) == x.null
\* static_cast<distance_t>(line[j].GetDouble() + 0.5)
rounded(x) == (x.twice + 1) \div 2

Cells(n) == (1 .. n) \X (1 .. n)
\* The table whose entries without a route are the cells of unfound; the
\* other entries are 1, 1.5, 2, ... by row and column.
Table(n, unfound) ==
  [i \in 1 .. n |->
     [j \in 1 .. n |->
        IF <<i, j>> \in unfound THEN Null ELSE Duration(1 + i + j)]]

\* The call: the protocol version, the number of locations (_locations
\* holds at least two), the content received, and the document infos, null
\* until the content is parsed into it.
Call(v5, n, code, message, unfound) ==
  [use_osrm_v5 |-> v5, m_size |-> n,
   json_content |-> [null |-> FALSE, code |-> code, message |-> message,
                     durations |-> Table(n, unfound)],
   doc |-> NullDocument]
Responses(max_locations, max_unfound) ==
  UNION {{Call(v5, n, "Ok", "", unfound) :
            v5 \in BOOLEAN,
            unfound \in {c \in SUBSET Cells(n) :
                           Cardinality(c) <= max_unfound}}
         \cup {Call(v5, n, "InvalidQuery", "Query string malformed",
                    unfound) :
                 v5 \in BOOLEAN, unfound \in {{}, {<<1, 2>>}}} :
         n \in 2 .. max_locations}

\* Line 324: infos.Parse(json_content) is the argument of an assert, so
\* the document holds the members of the content in a build with
\* assertions and stays null in a build without them.
parsed_documents(json_content) == {json_content, NullDocument}

\* The comparison with ties going to the later count.
exceeds_OrEquals(count, max_unfound_routes_for_a_loc) ==
  count >= max_unfound_routes_for_a_loc

\* nb_unfound_..._loc[i] > max_unfound_routes_for_a_loc
exceeds(count, max_unfound_routes_for_a_loc) ==
  count > max_unfound_routes_for_a_loc

\* "Building matrix and checking for unfound routes": m and the counts
\* start at zero for m_size locations, and the loops run over the lines
\* the document holds (none for a null document).
build(durations, m_size) ==
  LET n == Len(durations)
      set(i, j) == i <= n /\ j <= n /\ ~IsNull(durations[i][j])
  IN [m |-> [i \in 1 .. m_size |->
               [j \in 1 .. m_size |->
                  IF set(i, j) THEN rounded(durations[i][j]) ELSE 0]],
      nb_unfound_from_loc |->
        [i \in 1 .. m_size |->
           Cardinality({j \in 1 .. n : i <= n /\ IsNull(durations[i][j])})],
      nb_unfound_to_loc |->
        [j \in 1 .. m_size |->
           Cardinality({i \in 1 .. n : j <= n /\ IsNull(durations[i][j])})]]

\* "Finding the worst location for unfound routes": the loop from i on.
RECURSIVE worst(_, _, _)
worst(counts, i, acc) ==
  IF i >= Len(counts.nb_unfound_from_loc) THEN acc
  ELSE
    LET a == IF exceeds(counts.nb_unfound_from_loc[i + 1],
                        acc.max_unfound_routes_for_a_loc)
             THEN [max_unfound_routes_for_a_loc |->
                     counts.nb_unfound_from_loc[i + 1],
                   error_loc |-> i, error_direction |-> "from"]
             ELSE acc
        b == IF exceeds(counts.nb_unfound_to_loc[i + 1],
                        a.max_unfound_routes_for_a_loc)
             THEN [max_unfound_routes_for_a_loc |->
                     counts.nb_unfound_to_loc[i + 1],
                   error_loc |-> i, error_direction |-> "to"]
             ELSE a
    IN worst(counts, i + 1, b)

null_string_message == "basic_string: construction from null is not valid"

unfound_message(w) ==
  "OSRM has unfound route(s) " \o w.error_direction
  \o " location at index: " \o ToString(w.error_loc)

InitGetMatrix ==
  /\ LocalSearchIdle
  /\ ValidatorIdle
  /\ ParseIdle
  /\ WorkersIdle
  /\ CvrpIdle
  /\ infos \in Responses(MaxLocations, MaxUnfound)
  /\ gpc = "entry"
  /\ gl = NoCounts
  /\ gret = NoMatrix

\* "Checking everything is fine in the response". The member "code" of a
\* null document is not "Ok" and its member "message" has no string:
\* std::string is then built from a null pointer, which throws
\* std::logic_error or ends the program.
GCheckResponse ==
  /\ gpc = "entry"
  /\ \E doc \in parsed_documents(infos.json_content) :
       /\ infos' = [infos EXCEPT !.doc = doc]
       /\ IF infos.use_osrm_v5 /\ doc.code # "Ok"
          THEN IF doc.null
               THEN \/ /\ gpc' = "thrown"
                       /\ gret' = [kind |-> "std_exception", m |-> <<>>,
                                   text |-> null_string_message]
                    \/ /\ gpc' = "crashed"
                       /\ UNCHANGED gret
               ELSE /\ gpc' = "thrown"
                    /\ gret' = [kind |-> "thrown", m |-> <<>>,
                                text |-> "OSRM table: " \o doc.message]
          ELSE /\ gpc' = "checked"
               /\ UNCHANGED gret
  /\ UNCHANGED gl
  /\ UNCHANGED <<lsvars, vvars, pvars, wvars, cvars>>

\* The loop over the lines of the table.
GBuild ==
  /\ gpc = "checked"
  /\ gl' = build(infos.doc.durations, infos.m_size)
  /\ gpc' = "built"
  /\ UNCHANGED <<infos, gret>>
  /\ UNCHANGED <<lsvars, vvars, pvars, wvars, cvars>>

\* The worst location, then the exception or the matrix.
GReturn ==
  /\ gpc = "built"
  /\ LET w == worst(gl, 0, [max_unfound_routes_for_a_loc |-> 0,
                            error_loc |-> 0, error_direction |-> ""])
     IN IF w.max_unfound_routes_for_a_loc > 0
        THEN /\ gpc' = "thrown"
             /\ gret' = [kind |-> "thrown", m |-> <<>>,
                         text |-> unfound_message(w)]
        ELSE /\ gpc' = "returned"
             /\ gret' = [kind |-> "matrix", m |-> gl.m, text |-> ""]
  /\ UNCHANGED <<infos, gl>>
  /\ UNCHANGED <<lsvars, vvars, pvars, wvars, cvars>>

NextGetMatrix == GCheckResponse \/ GBuild \/ GReturn

SpecGetMatrix == InitGetMatrix /\ [][NextGetMatrix]_vars

\* ------------------------------------------------------------------------
\* C20: unfound routes.
\* ------------------------------------------------------------------------
\* The entries of the table without a route, and how many of them have
\* location i (from 0) as origin and as destination.
table == infos.json_content.durations
unfound_cells == {c \in Cells(Len(table)) : table[c[1]][c[2]].null}
unfound_from(i) == Cardinality({c \in unfound_cells : c[1] = i + 1})
unfound_to(i) == Cardinality({c \in unfound_cells : c[2] = i + 1})
locations == 0 .. Len(table) - 1
greatest_unfound ==
  CHOOSE g \in {unfound_from(i) : i \in locations}
               \cup {unfound_to(i) : i \in locations} :
    \A i \in locations : unfound_from(i) <= g /\ unfound_to(i) <= g
\* The lowest index reaching the greatest count.
blamed_location ==
  CHOOSE i \in locations :
    /\ unfound_from(i) = greatest_unfound \/ unfound_to(i) = greatest_unfound
    /\ \A l \in 0 .. i - 1 :
         unfound_from(l) < greatest_unfound /\ unfound_to(l) < greatest_unfound
blamed_direction ==
  IF unfound_from(blamed_location) = greatest_unfound THEN "from" ELSE "to"

\* C20: get_matrix returns a matrix only for a table without null entry;
\* with a null entry it throws, naming the location with the greatest
\* number of unfound routes as origin or as destination, the lowest index on
\* a tie and, for one index, the origin before the destination.
C20_UnfoundRoutes ==
  /\ gpc = "returned" => (gret.kind = "matrix" /\ unfound_cells = {})
  /\ (gpc \in {"returned", "thrown"} /\ unfound_cells # {}
      /\ ~(infos.use_osrm_v5 /\ infos.json_content.code # "Ok"))
       => /\ gpc = "thrown"
          /\ gret.kind = "thrown"
          /\ gret.text = "OSRM has unfound route(s) " \o blamed_direction
                         \o " location at index: "
                         \o ToString(blamed_location)

\* The same for the calls whose document was parsed (a build with
\* assertions).
C20_UnfoundRoutesWhenParsed ==
  (gpc \in {"returned", "thrown"} /\ ~infos.doc.null)
    => /\ gpc = "returned" => (gret.kind = "matrix" /\ unfound_cells = {})
       /\ (unfound_cells # {}
           /\ ~(infos.use_osrm_v5 /\ infos.json_content.code # "Ok"))
            => /\ gpc = "thrown"
               /\ gret.kind = "thrown"
               /\ gret.text = "OSRM has unfound route(s) "
                              \o blamed_direction
                              \o " location at index: "
                              \o ToString(blamed_location)

\* A location blamed as destination while a later location has as many
\* unfound routes as origin.
C20_Witness ==
  /\ gpc = "thrown"
  /\ ~infos.doc.null
  /\ ~(infos.use_osrm_v5 /\ infos.json_content.code # "Ok")
  /\ gret.kind = "thrown"
  /\ blamed_direction = "to"
  /\ \E i \in locations :
       i > blamed_location /\ unfound_from(i) = greatest_unfound
  /\ gret.text = "OSRM has unfound route(s) to location at index: "
                 \o ToString(blamed_location)

\* ------------------------------------------------------------------------
\* C23: the second round.
\* ------------------------------------------------------------------------
\* The sum of the service starts of the tasks.
task_starts(P, s) == SumSeq([i \in 1 .. P.n |-> s.t[i + 1]])

\* C23: the schedule read after the second round has the makespan and the
\* total violation of the first round and, among the schedules that have
\* them, the least sum of task service starts.
C23_EarliestTaskStarts ==
  vpc = "solved"
    => LET P == problem(vin)
       IN /\ makespan(P, mip) = lp.makespan_fx
          /\ SumSeq(mip.y) = lp.sigma_y_fx
          /\ \A s \in feasible(vin, P) :
               (makespan(P, s) = lp.makespan_fx
                /\ SumSeq(s.y) <= lp.sigma_y_fx)
                 => task_starts(P, mip) <= task_starts(P, s)

\* ------------------------------------------------------------------------
\* C24: travel times of the returned route.
\* ------------------------------------------------------------------------
\* The matrix index of step k: none for a break and for the start or end
\* step of a vehicle that has no start or no end.
step_index(vi, k) ==
  LET step == vi.steps[k]
  IN CASE step.type = "start" -> IF vi.has_start THEN VStartIndex ELSE Unset
       [] step.type = "job" -> VJobCatalog[step.rank + 1].index
       [] step.type = "end" -> IF vi.has_end THEN VEndIndex ELSE Unset
       [] OTHER -> Unset

\* The non-break step that follows step k.
next_non_break(vi, k) ==
  CHOOSE j \in (k + 1) .. Len(vi.steps) :
    /\ vi.steps[j].type # "break"
    /\ \A l \in (k + 1) .. (j - 1) : vi.steps[l].type = "break"

\* The travel time the matrix gives from non-break step k to the next
\* non-break step.
matrix_travel(vi, k) ==
  LET from == step_index(vi, k)
      to == step_index(vi, next_non_break(vi, k))
  IN IF from = Unset \/ to = Unset THEN 0 ELSE VMatrix(from, to)

\* The travel time the matrix gives along the non-break steps up to step k.
matrix_travel_to(vi, k) ==
  SumSeq([j \in 1 .. (k - 1) |->
            IF vi.steps[j].type = "break" THEN 0 ELSE matrix_travel(vi, j)])

\* The travel value read for the segment that follows step k.
travel_after(P, s, k) ==
  IF k = 1 THEN output(P, s).start_travel
  ELSE output(P, s).task_travels[k - 1]

\* The place in the route's steps of step k of the sequence.
route_rank(vi, k) == IF vi.has_start THEN k ELSE k - 1

\* C24: in the returned route the travel values read for the segments
\* between a non-break step and the next non-break step are never negative
\* and add up to the matrix travel time between the two steps (0 when the
\* vehicle has no start or no end); the duration of every emitted non-break
\* step and of the route is the matrix travel time along the non-break
\* steps.
C24_TravelIsMatrixTravel ==
  vpc = "returned"
    => LET P == problem(vin)
           last == Len(vin.steps)
       IN /\ \A k \in 1 .. (last - 1) : travel_after(P, mip, k) >= 0
          /\ \A k \in 1 .. (last - 1) :
               vin.steps[k].type # "break"
                 => SumSeq([j \in 1 .. (next_non_break(vin, k) - k) |->
                              travel_after(P, mip, k + j - 1)])
                    = matrix_travel(vin, k)
          /\ \A k \in 2 .. last :
               (vin.steps[k].type = "job"
                \/ (vin.steps[k].type = "end" /\ vin.has_end))
                 => result.steps[route_rank(vin, k)].duration
                    = matrix_travel_to(vin, k)
          /\ result.duration = matrix_travel_to(vin, last)

\* A route with a break between two non-break steps, where a part of the
\* travel time is spent before the break and the rest after it.
C24_Witness ==
  /\ vpc = "returned"
  /\ \E k \in 2 .. (Len(vin.steps) - 1) :
       /\ vin.steps[k].type = "break"
       /\ travel_after(problem(vin), mip, k - 1) > 0
       /\ travel_after(problem(vin), mip, k) > 0
  /\ result.duration > 0

\* A route of a vehicle without start and without end.
C24_WitnessNoStartNoEnd ==
  /\ vpc = "returned"
  /\ ~vin.has_start
  /\ ~vin.has_end
  /\ Len(vin.steps) > 3

\* ------------------------------------------------------------------------
\* C25: arrivals and waiting times of the returned route.
\* ------------------------------------------------------------------------
\* The service start read for step k of the sequence.
service_start_of(P, s, k) ==
  IF k = 1 THEN output(P, s).v_start
  ELSE IF k = P.n + 2 THEN output(P, s).v_end
  ELSE output(P, s).task_ETA[k - 1]

\* The steps of the sequence that are emitted after the start step.
emitted_after_start(vi) ==
  {k \in 2 .. Len(vi.steps) :
     vi.steps[k].type \in {"job", "break"}
     \/ (vi.steps[k].type = "end" /\ vi.has_end)}

\* C25: in the returned route every job, break and end step arrives at the
\* service start of the step before it plus that step's service plus the
\* travel read for the segment between the two; the arrival is not after
\* the step's own service start, the waiting time is the difference, and
\* the waiting time of the route is the sum of the waiting times of its
\* steps.
C25_ArrivalAndWaiting ==
  vpc = "returned"
    => LET P == problem(vin)
       IN /\ \A k \in emitted_after_start(vin) :
               LET current == result.steps[route_rank(vin, k)]
               IN /\ current.arrival
                     = service_start_of(P, mip, k - 1)
                       + StepService(vin.steps[k - 1])
                       + travel_after(P, mip, k - 1)
                  /\ current.arrival <= service_start_of(P, mip, k)
                  /\ current.waiting_time
                     = service_start_of(P, mip, k) - current.arrival
          /\ result.waiting_time
             = SumSeq([i \in 1 .. Len(result.steps) |->
                         result.steps[i].waiting_time])

\* A route with a step that waits and a step that does not.
C25_Witness ==
  /\ vpc = "returned"
  /\ \E k \in emitted_after_start(vin) :
       result.steps[route_rank(vin, k)].waiting_time > 0
  /\ \E k \in emitted_after_start(vin) :
       /\ result.steps[route_rank(vin, k)].waiting_time = 0
       /\ StepService(vin.steps[k - 1]) > 0
  /\ result.waiting_time > 0

\* ------------------------------------------------------------------------
\* C26: lower bounds of the service starts.
\* ------------------------------------------------------------------------
\* The last non-break step before step k.
last_non_break(vi, k) ==
  CHOOSE j \in 1 .. (k - 1) :
    /\ vi.steps[j].type # "break"
    /\ \A l \in (j + 1) .. (k - 1) : vi.steps[l].type = "break"

\* What the step before step k hands on to step k: its lower bound plus its
\* service, plus the travel from the last non-break step when step k is not
\* a break.
propagated_LB(vi, P, k) ==
  P.t_i_LB[k - 1] + StepService(vi.steps[k - 1])
  + (IF vi.steps[k].type = "break" THEN 0
     ELSE matrix_travel(vi, last_non_break(vi, k)))

\* The lower and upper bounds a step is forced to: after wins over at for
\* the lower bound, before wins over at for the upper bound.
forced_LB(step) ==
  IF step.forced.after # Unset THEN step.forced.after ELSE step.forced.at
forced_UB(step) ==
  IF step.forced.before # Unset THEN step.forced.before ELSE step.forced.at

\* if (UB < LB): the steps whose upper bound is below their lower bound.
\* The upper bound of a step that is not forced is the end of the horizon
\* as it is when the step is scanned.
overconstrained_steps(vi, P) ==
  {k \in 1 .. Len(vi.steps) : P.t_i_UB[k] < P.t_i_LB[k]}

\* Among them, the steps whose upper bound is forced.
forced_below_LB(vi, P) ==
  {k \in overconstrained_steps(vi, P) : forced_UB(vi.steps[k]) # Unset}

\* C26: the lower bounds of the service starts never decrease along the
\* sequence; the bound of a job or of the end step is the larger of its
\* forced bound and of the bound of the step before plus that step's
\* service plus the travel from the last non-break step, the bound of a
\* break is the same without travel; a sequence with a step whose forced
\* upper bound is below its lower bound ends with the INPUT error naming the
\* vehicle, no round being solved.
C26_LowerBoundsPropagate ==
  vpc \notin {"entry", "created"}
    => LET P == problem(vin)
       IN /\ \A k \in 2 .. Len(vin.steps) :
               /\ P.t_i_LB[k - 1] <= P.t_i_LB[k]
               /\ P.t_i_LB[k]
                  = IF forced_LB(vin.steps[k]) = Unset
                    THEN propagated_LB(vin, P, k)
                    ELSE Max2(forced_LB(vin.steps[k]),
                              propagated_LB(vin, P, k))
          /\ \A k \in 1 .. Len(vin.steps) :
               forced_UB(vin.steps[k]) # Unset
                 => P.t_i_UB[k] = forced_UB(vin.steps[k])
          /\ forced_below_LB(vin, P) # {}
               => /\ vpc = "thrown"
                  /\ err = [kind |-> "INPUT",
                            text |-> "Infeasible route for vehicle",
                            vehicle |-> vin.id]
                  /\ status = "none"

\* A call ended by a task forced before 1 whose lower bound is larger.
C26_Witness ==
  /\ vpc = "thrown"
  /\ \E k \in forced_below_LB(vin, problem(vin)) :
       /\ vin.steps[k].forced.before # Unset
       /\ propagated_LB(vin, problem(vin), k) > 1

\* A call ended by a task forced at 1 whose lower bound is larger.
C26_WitnessForcedAt ==
  /\ vpc = "thrown"
  /\ \E k \in forced_below_LB(vin, problem(vin)) :
       vin.steps[k].forced.at # Unset

\* A break behind a job with travel, bounded without the travel.
C26_WitnessBreak ==
  /\ vpc = "loaded"
  /\ \E k \in 3 .. (Len(vin.steps) - 1) :
       /\ vin.steps[k].type = "break"
       /\ matrix_travel(vin, last_non_break(vin, k)) > 0
       /\ problem(vin).t_i_LB[k] = problem(vin).t_i_LB[k - 1]

\* ------------------------------------------------------------------------
\* C27: the time windows discarded before the MIP is built.
\* ------------------------------------------------------------------------
\* What serving task i at time t costs when its time window of rank k is
\* picked: the least Y_i that rows L_i and D_i allow, which is the lead time
\* before the start of the window or the delay after its end, both taken
\* from the window's bounds less horizon_start in unsigned arithmetic.
tw_violation(vi, P, i, k, t) == min_y(vi, P, i, t - P.horizon_start, k)

\* The tasks of the sequence: step k + 1 is task k.
task_ranks(vi) == 1 .. (Len(vi.steps) - 2)

\* The rank the claim gives: the last window starting at or before LB, plus
\* one when LB lies after its end and strictly closer to the start of the
\* next window.
stated_rank(tws, LB) ==
  LET started == {r \in 0 .. (Len(tws) - 1) : tws[r + 1].start <= LB}
      last == CHOOSE r \in started : \A q \in started : q <= r
  IN IF started = {} THEN 0
     ELSE IF /\ last + 1 < Len(tws)
             /\ tws[last + 1].end < LB
             /\ tws[last + 2].start - LB < LB - tws[last + 1].end
          THEN last + 1
          ELSE last

\* C27: for every task and every service start from its lower bound to the
\* end of the horizon, some time window of rank first_relevant_tw_rank or
\* more costs no more than any window of smaller rank; first_relevant_tw_rank
\* is the rank of the last window that starts at or before the lower bound,
\* plus one when the bound lies after the end of that window and strictly
\* closer to the start of the next.
C27_DiscardedWindowsNeverBest ==
  vpc \notin {"entry", "created"}
    => LET P == problem(vin)
       IN \A i \in task_ranks(vin) :
            LET tws == StepTws(vin.steps[i + 1])
                LB == P.t_i_LB[i + 1]
                first == P.first_relevant_tw_rank[i]
            IN /\ first = stated_rank(tws, LB)
               /\ first < Len(tws)
               /\ \A t \in LB .. Max2(LB, P.horizon_end) :
                    \E kept \in first .. (Len(tws) - 1) :
                      \A discarded \in 0 .. (first - 1) :
                        tw_violation(vin, P, i, kept, t)
                        <= tw_violation(vin, P, i, discarded, t)

\* A task whose first window is discarded: its lower bound is behind the
\* end of that window and closer to the start of the second.
C27_Witness ==
  /\ vpc \notin {"entry", "created"}
  /\ \E i \in task_ranks(vin) :
       /\ problem(vin).first_relevant_tw_rank[i] = 1
       /\ StepTws(vin.steps[i + 1])[1].end < problem(vin).t_i_LB[i + 1]
       /\ problem(vin).t_i_LB[i + 1] < StepTws(vin.steps[i + 1])[2].start

\* A task whose lower bound is as far from the end of its first window as
\* from the start of its second: the first window is kept.
C27_WitnessTie ==
  /\ vpc \notin {"entry", "created"}
  /\ \E i \in task_ranks(vin) :
       LET tws == StepTws(vin.steps[i + 1])
           LB == problem(vin).t_i_LB[i + 1]
       IN /\ Len(tws) = 2
          /\ tws[1].end < LB
          /\ tws[2].start - LB = LB - tws[1].end
          /\ problem(vin).first_relevant_tw_rank[i] = 0

\* ------------------------------------------------------------------------
\* C28: the subtractions of horizon_start.
\* ------------------------------------------------------------------------
\* The tasks whose time windows enter rows L_i and D_i: all but the jobs
\* with the default time window.
windowed_tasks(vi) ==
  {i \in task_ranks(vi) :
     ~(vi.steps[i + 1].type = "job"
       /\ is_default(StepTws(vi.steps[i + 1])[1]))}

\* The values horizon_start is subtracted from while the MIP is built: the
\* bounds of the steps, the vehicle's time window (its start only when the
\* window is not the default one) and the time windows of the tasks.
horizon_minuends(vi, P) ==
  {P.t_i_LB[k] : k \in 1 .. Len(vi.steps)}
  \cup {P.t_i_UB[k] : k \in 1 .. Len(vi.steps)}
  \cup (IF is_default(vi.tw) THEN {} ELSE {vi.tw.start})
  \cup {vi.tw.end}
  \cup UNION {{StepTws(vi.steps[i + 1])[w].start,
               StepTws(vi.steps[i + 1])[w].end} :
                <<i, w>> \in {p \in windowed_tasks(vi) \X (1 .. 2) :
                               p[2] <= Len(StepTws(vi.steps[p[1] + 1]))}}

\* C28: while the MIP is built horizon_start is never subtracted from a
\* smaller value: the bounds of every step, the vehicle's time window and
\* the time windows of every job and break are at least the final
\* horizon_start.
C28_NoWraparound ==
  vpc \notin {"entry", "created", "thrown"}
    => \A a \in horizon_minuends(vin, problem(vin)) :
         problem(vin).horizon_start <= a

\* C28, for the bounds of the steps and the vehicle's time window alone.
C28_BoundsNoWraparound ==
  vpc \notin {"entry", "created", "thrown"}
    => LET P == problem(vin)
       IN /\ \A k \in 1 .. Len(vin.steps) :
               /\ P.horizon_start <= P.t_i_LB[k]
               /\ P.horizon_start <= P.t_i_UB[k]
          /\ ~is_default(vin.tw) => P.horizon_start <= vin.tw.start
          /\ P.horizon_start <= vin.tw.end

\* The forced service of the last task lowers horizon_start below the bounds
\* computed for the steps before it.
C28_WitnessLoweredLater ==
  /\ vpc = "loaded"
  /\ \E k \in 2 .. (Len(vin.steps) - 1) :
       /\ vin.steps[k].forced # NoForced
       /\ problem(vin).horizon_start < problem(vin).t_i_LB[1]
       /\ problem(vin).horizon_start
          < refine_horizon(first_scan(vin)).horizon_start

\* ------------------------------------------------------------------------
\* C29: unassigned_ranks.
\* ------------------------------------------------------------------------
\* The job ranks that stand in the sequence as job steps.
job_ranks_of(vi) ==
  {vi.steps[k].rank : k \in {j \in 1 .. Len(vi.steps) :
                               vi.steps[j].type = "job"}}

\* C29: the step that returns a Route takes out of unassigned_ranks the job
\* ranks of the job steps of the sequence and nothing else; every other
\* step of the call, the ones that end it with an error included, leaves
\* unassigned_ranks as it is.
C29_UnassignedRanksFrame ==
  [][/\ vpc' = "returned" /\ vpc # "returned"
         => /\ unassigned_ranks' = unassigned_ranks \ job_ranks_of(vin)
            /\ {result'.steps[i].rank :
                  i \in {j \in 1 .. Len(result'.steps) :
                           result'.steps[j].step_type = "job"}}
               = job_ranks_of(vin)
     /\ vpc' # "returned" => unassigned_ranks' = unassigned_ranks]_vars

\* A returned route: its jobs have left unassigned_ranks, the others are
\* still there.
C29_Witness ==
  /\ vpc = "returned"
  /\ job_ranks_of(vin) # {}
  /\ unassigned_ranks = VJobRanks \ job_ranks_of(vin)
  /\ unassigned_ranks # {}

\* A call ended with an error after a round was solved: unassigned_ranks
\* still holds every rank.
C29_WitnessError ==
  /\ vpc = "thrown"
  /\ status # "none"
  /\ unassigned_ranks = VJobRanks

\* ------------------------------------------------------------------------
\* C22: the local search on or_opt moves that applies a move only when its
\* gain is positive and is_valid accepts it, and stops when there is none.
\* ------------------------------------------------------------------------
\* The moves the local search may pick: gain above zero, accepted by
\* is_valid.
improving_moves(in, s, am) ==
  {o \in AllOps :
     /\ OpOk(s, o)
     /\ compute_gain(in, s, o,
                     edge_gains(in, s, o.source_vehicle, o.source_rank)) > 0
     /\ is_valid(in, s, am, o)}

\* The local search picks an improving move: compute_gain and is_valid are
\* called on it.
LSPick ==
  /\ lspc = "idle"
  /\ \E o \in improving_moves(input, sol, amounts) :
       /\ op' = o
       /\ stored_gain' =
            compute_gain(input, sol, o,
                         edge_gains(input, sol, o.source_vehicle, o.source_rank))
  /\ gain_computed' = TRUE
  /\ valid' = TRUE
  /\ lspc' = "checked"
  /\ base' = NoBase
  /\ UNCHANGED <<input, sol, amounts, undone>>
  /\ UNCHANGED <<vvars, pvars, gvars, wvars, cvars>>

\* No improving move is left: the local search stops.
LSStop ==
  /\ lspc = "idle"
  /\ improving_moves(input, sol, amounts) = {}
  /\ lspc' = "stopped"
  /\ UNCHANGED <<input, sol, amounts, op, stored_gain, gain_computed, valid,
                 base, undone>>
  /\ UNCHANGED <<vvars, pvars, gvars, wvars, cvars>>

NextLocalSearch == LSPick \/ Apply \/ LSStop

\* The local search runs as long as it has a step to take.
SpecLocalSearch ==
  Init /\ [][NextLocalSearch]_vars /\ WF_vars(NextLocalSearch)

\* C22: the local search that applies an or_opt move only when its gain is
\* above zero and is_valid accepts it, and stops when no such move is left,
\* stops after finitely many moves.
C22_Terminates == <>(lspc = "stopped")

\* C22, the reason given: each applied move lowers the total travel cost of
\* the solution by its gain, and the cost is never negative.
C22_CostDecreases ==
  [][/\ (lspc = "checked" /\ lspc' = "idle")
          => /\ TotalCost(input, sol') = TotalCost(input, sol) - stored_gain
             /\ TotalCost(input, sol') < TotalCost(input, sol)
     /\ TotalCost(input, sol') >= 0]_vars

\* The local search stopped after it applied a move.
C22_Witness ==
  /\ lspc = "stopped"
  /\ base # NoBase
  /\ TotalCost(input, sol) < TotalCost(input, base.sol)

\* ------------------------------------------------------------------------
\* The GLPK calls of choose_invalid_route when several workers run it at
\* the same time. The function takes no lock; the GLPK environment belongs
\* to the process: the first glp_create_prob allocates it, glp_free_env
\* frees it together with every problem object created in it. What a
\* worker's data decides (the exception at the column bounds, the status
\* after each round) is a choice here.
\* ------------------------------------------------------------------------
InitWorkers ==
  /\ LocalSearchIdle
  /\ ValidatorIdle
  /\ ParseIdle
  /\ GetMatrixIdle
  /\ CvrpIdle
  /\ wk = [w \in Workers |-> [pc |-> "entry", prob |-> "none"]]
  /\ glp_env = FALSE

\* The places a call on a glp_prob may lead to: the place the code goes to
\* next, or the exception when the code may throw there; on a problem object
\* that was freed under the worker the behaviour is undefined and the call
\* may also crash.
after_call(w, next, may_throw) ==
  {next} \cup (IF may_throw THEN {"thrown"} ELSE {})
  \cup (IF wk[w].prob = "freed" THEN {"crashed"} ELSE {})

\* glp_create_prob.
WCreate(w) ==
  /\ wk[w].pc = "entry"
  /\ wk' = [wk EXCEPT ![w] = [pc |-> "created", prob |-> "live"]]
  /\ glp_env' = TRUE
  /\ UNCHANGED <<lsvars, vvars, pvars, gvars, cvars>>

\* The columns and the matrix are set; a step with an upper bound below its
\* lower bound throws.
WSetCols(w) ==
  /\ wk[w].pc = "created"
  /\ \E to \in after_call(w, "loaded", TRUE) :
       wk' = [wk EXCEPT ![w].pc = to]
  /\ UNCHANGED <<glp_env>>
  /\ UNCHANGED <<lsvars, vvars, pvars, gvars, cvars>>

\* First glp_intopt and the test of its status.
WSolve1(w) ==
  /\ wk[w].pc = "loaded"
  /\ \E to \in after_call(w, "round_2", TRUE) :
       wk' = [wk EXCEPT ![w].pc = to]
  /\ UNCHANGED <<glp_env>>
  /\ UNCHANGED <<lsvars, vvars, pvars, gvars, cvars>>

\* Second glp_intopt and the test of its status.
WSolve2(w) ==
  /\ wk[w].pc = "round_2"
  /\ \E to \in after_call(w, "solved", TRUE) :
       wk' = [wk EXCEPT ![w].pc = to]
  /\ UNCHANGED <<glp_env>>
  /\ UNCHANGED <<lsvars, vvars, pvars, gvars, cvars>>

\* The columns are read and glp_delete_prob is called.
WDelete(w) ==
  /\ wk[w].pc = "solved"
  /\ \E to \in after_call(w, "deleted", FALSE) :
       wk' = [wk EXCEPT ![w] = [pc |-> to,
                                prob |-> IF to = "deleted" THEN "none"
                                         ELSE wk[w].prob]]
  /\ UNCHANGED <<glp_env>>
  /\ UNCHANGED <<lsvars, vvars, pvars, gvars, cvars>>

\* glp_free_env, then the route is generated and returned: the problem
\* objects the other workers still hold are freed with the environment.
WFreeEnv(w) ==
  /\ wk[w].pc = "deleted"
  /\ wk' = [v \in Workers |->
              IF v = w THEN [wk[v] EXCEPT !.pc = "returned"]
              ELSE IF wk[v].prob = "live" THEN [wk[v] EXCEPT !.prob = "freed"]
              ELSE wk[v]]
  /\ glp_env' = FALSE
  /\ UNCHANGED <<lsvars, vvars, pvars, gvars, cvars>>

NextWorkers ==
  \E w \in Workers :
    \/ WCreate(w)
    \/ WSetCols(w)
    \/ WSolve1(w)
    \/ WSolve2(w)
    \/ WDelete(w)
    \/ WFreeEnv(w)

SpecWorkers == InitWorkers /\ [][NextWorkers]_vars

\* ------------------------------------------------------------------------
\* C21: the MIP calls of parallel workers.
\* ------------------------------------------------------------------------
\* The workers between glp_create_prob and glp_free_env.
in_solver(w) ==
  wk[w].pc \in {"created", "loaded", "round_2", "solved", "deleted"}

\* C21: at most one worker is between glp_create_prob and glp_free_env at
\* any time, and no worker has its problem object freed by the glp_free_env
\* of another worker.
C21_SolverCallsSerialized ==
  /\ Cardinality({w \in Workers : in_solver(w)}) <= 1
  /\ \A w \in Workers : wk[w].prob # "freed"

\* C21, first half alone: at most one worker is between glp_create_prob and
\* glp_free_env.
C21_OneWorkerInSolver ==
  Cardinality({w \in Workers : in_solver(w)}) <= 1

\* C21, second half alone: no worker frees the environment while the
\* problem of another worker is in use.
C21_NoFreeUnderUse ==
  \A w \in Workers : wk[w].prob # "freed"

\* ------------------------------------------------------------------------
\* cvrp::empty_cluster and cvrp::solve (src/unnamed/part_001). Vehicle v
\* (0-based) starts at location 2v and ends there or at location 2v + 1;
\* job 1 is at the start of vehicle 0, the other jobs are elsewhere.
\* ------------------------------------------------------------------------
ClusterVehicles == 0 .. (NumClusters - 1)
ClusterJobs == 1 .. NumClusterJobs

CvVehicle(v, kind) ==
  [has_start |-> kind # "end",
   has_end |-> kind # "start",
   start_index |-> IF kind # "end" THEN 2 * v ELSE None,
   end_index |-> IF kind = "start" THEN None
                 ELSE IF kind = "round" THEN 2 * v ELSE 2 * v + 1]
CvVehicleKinds == {"start", "end", "round", "start_end"}

JobLocation(j) == IF j = 1 THEN 0 ELSE 2 * NumClusters + j

\* The travel costs between the locations.
CvMatrix(i, j) == IF i = j THEN 0 ELSE 1 + ((i + 2 * j) % 3)

\* parallel_clustering: the cluster of a vehicle holds its start, then its
\* end unless that is the location of the start, then the locations of the
\* jobs given to the vehicle (given[j] is the vehicle of job j, or
\* NumClusters when the job is left out).
depots(veh) ==
  (IF veh.has_start THEN <<veh.start_index>> ELSE <<>>)
  \o (IF veh.has_end /\ ~(veh.has_start /\ veh.start_index = veh.end_index)
      THEN <<veh.end_index>> ELSE <<>>)
RECURSIVE given_locations(_, _, _)
given_locations(given, v, j) ==
  IF j > Len(given) THEN <<>>
  ELSE (IF given[j] = v THEN <<JobLocation(j)>> ELSE <<>>)
       \o given_locations(given, v, j + 1)
parallel_clustering(vehicles, given) ==
  [v \in 1 .. Len(vehicles) |->
     depots(vehicles[v]) \o given_locations(given, v - 1, 1)]

\* Every cluster of one or two entries counts as empty.
empty_cluster_SizeOnly(vehicles, cluster, v) ==
  Len(cluster) = 1 \/ Len(cluster) = 2

\* cvrp::empty_cluster.
empty_cluster(vehicles, cluster, v) ==
  \/ Len(cluster) = 1
  \/ /\ Len(cluster) = 2
     /\ vehicles[v + 1].has_start
     /\ vehicles[v + 1].has_end
     /\ vehicles[v + 1].start_index # vehicles[v + 1].end_index

\* The cost of the route of vehicle veh through the locations of steps.
tsp_cost(veh, steps) ==
  LET stops == (IF veh.has_start THEN <<veh.start_index>> ELSE <<>>)
               \o steps
               \o (IF veh.has_end THEN <<veh.end_index>> ELSE <<>>)
  IN SumSeq([k \in 1 .. (Len(stops) - 1) |-> CvMatrix(stops[k], stops[k + 1])])

\* tsp::solve: one route for the vehicle through the jobs of the cluster,
\* in any order, with its cost.
tsp_solve(vehicles, cluster, v) ==
  LET veh == vehicles[v + 1]
      first == Len(depots(veh)) + 1
  IN {[routes |-> <<[vehicle |-> v,
                     steps |-> [k \in 1 .. Len(order) |-> cluster[order[k]]]]>>,
       summary |->
         [cost |-> tsp_cost(veh, [k \in 1 .. Len(order) |->
                                    cluster[order[k]]])]] :
        order \in Perms(first .. Len(cluster))}

InitCvrp ==
  /\ LocalSearchIdle
  /\ ValidatorIdle
  /\ ParseIdle
  /\ GetMatrixIdle
  /\ WorkersIdle
  /\ \E kinds \in [1 .. NumClusters -> CvVehicleKinds],
        given \in [ClusterJobs -> 0 .. NumClusters] :
       cv = [NoCvrp EXCEPT
               !.pc = "entry",
               !.vehicles = [v \in 1 .. NumClusters |->
                               CvVehicle(v - 1, kinds[v])],
               !.jobs = given]

\* auto c = parallel_clustering(_input, regret_coeff).
CvClustering ==
  /\ cv.pc = "entry"
  /\ cv' = [cv EXCEPT !.pc = "loop",
                      !.clusters = parallel_clustering(cv.vehicles, cv.jobs),
                      !.i = 0]
  /\ UNCHANGED <<lsvars, vvars, pvars, gvars, wvars>>

\* One turn of the loop over the clusters, for an empty cluster.
CvSkip ==
  /\ cv.pc = "loop"
  /\ cv.i < Len(cv.clusters)
  /\ empty_cluster(cv.vehicles, cv.clusters[cv.i + 1], cv.i)
  /\ cv' = [cv EXCEPT !.i = @ + 1]
  /\ UNCHANGED <<lsvars, vvars, pvars, gvars, wvars>>

\* One turn of the loop over the clusters, for a cluster that is not empty.
CvTsp ==
  /\ cv.pc = "loop"
  /\ cv.i < Len(cv.clusters)
  /\ ~empty_cluster(cv.vehicles, cv.clusters[cv.i + 1], cv.i)
  /\ \E tsp_sol \in tsp_solve(cv.vehicles, cv.clusters[cv.i + 1], cv.i) :
       cv' = [cv EXCEPT !.tsp_sols = Append(@, tsp_sol), !.i = @ + 1]
  /\ UNCHANGED <<lsvars, vvars, pvars, gvars, wvars>>

\* The routes and the total cost are gathered and returned.
CvReturn ==
  /\ cv.pc = "loop"
  /\ cv.i = Len(cv.clusters)
  /\ cv' = [cv EXCEPT
              !.pc = "returned",
              !.routes = [k \in 1 .. Len(cv.tsp_sols) |->
                            cv.tsp_sols[k].routes[1]],
              !.total_cost = SumSeq([k \in 1 .. Len(cv.tsp_sols) |->
                                       cv.tsp_sols[k].summary.cost])]
  /\ UNCHANGED <<lsvars, vvars, pvars, gvars, wvars>>

NextCvrp == CvClustering \/ CvSkip \/ CvTsp \/ CvReturn

SpecCvrp == InitCvrp /\ [][NextCvrp]_vars

\* ------------------------------------------------------------------------
\* C30: empty clusters and the routes of cvrp::solve.
\* ------------------------------------------------------------------------
\* The jobs given to vehicle v.
jobs_given(v) == {j \in ClusterJobs : cv.jobs[j] = v}

\* The vehicles that were given a job, in increasing order.
RECURSIVE in_order(_)
in_order(S) ==
  IF S = {} THEN <<>>
  ELSE LET least == CHOOSE x \in S : \A y \in S : x <= y
       IN <<least>> \o in_order(S \ {least})
used_vehicles == in_order({v \in ClusterVehicles : jobs_given(v) # {}})

\* C30: for a vehicle with a start or an end, empty_cluster is true exactly
\* when the cluster holds no job location; cvrp::solve returns one route for
\* each vehicle whose cluster holds a job location and for no other, in the
\* order of the vehicles, each route going through the locations of the
\* jobs of its cluster, and a total cost that is the sum of the costs of
\* these routes.
C30_RoutesForNonEmptyClusters ==
  /\ cv.pc \in {"loop", "returned"}
       => \A v \in ClusterVehicles :
            empty_cluster(cv.vehicles, cv.clusters[v + 1], v)
              <=> jobs_given(v) = {}
  /\ cv.pc = "returned"
       => /\ [k \in 1 .. Len(cv.routes) |-> cv.routes[k].vehicle]
             = used_vehicles
          /\ \A k \in 1 .. Len(cv.routes) :
               {cv.routes[k].steps[n] : n \in 1 .. Len(cv.routes[k].steps)}
               = {JobLocation(j) : j \in jobs_given(cv.routes[k].vehicle)}
          /\ cv.total_cost
             = SumSeq([k \in 1 .. Len(cv.routes) |->
                         tsp_cost(cv.vehicles[cv.routes[k].vehicle + 1],
                                  cv.routes[k].steps)])

\* A solution returned for a vehicle with a start only that holds one job,
\* located at its start, and a vehicle with distinct start and end that
\* holds none.
C30_Witness ==
  /\ cv.pc = "returned"
  /\ Len(cv.routes) = 1
  /\ cv.routes[1].vehicle = 0
  /\ ~cv.vehicles[1].has_end
  /\ cv.clusters[1] = <<0, 0>>
  /\ cv.vehicles[2].has_start /\ cv.vehicles[2].has_end
  /\ Len(cv.clusters[2]) = 2

====
